---- MODULE Spec2Model ----
(***************************************************************************)
(* EchoHire backend: the interview record, the transcript and feedback     *)
(* collections, and the request handlers of backend/main.py that change    *)
(* them, with the call provider (Vapi) and the analysis provider (Gemini)  *)
(* as nondeterministic outcomes of each request.                           *)
(*                                                                         *)
(* Text that the code inspects (raw provider status strings, transcript    *)
(* text) is a sequence of one-character strings, so that lower(), strip()  *)
(* and the `in` substring test are computed as Python computes them.       *)
(***************************************************************************)
EXTENDS Integers, Sequences, FiniteSets, Bags, TLC

VARIABLES
    interviews,     \* collection "interviews": interview id -> document
    transcripts,    \* collection "transcripts": interview id -> document
    feedback,       \* collection "feedback": set of documents
    env,            \* process configuration read at import time
    inflight,       \* bag of requests suspended at an await between check and write
    resp,           \* the handler that ran last and what it returned
    sessions        \* InterviewSetupAssistant.sessions: session id -> session

vars == <<interviews, transcripts, feedback, env, inflight, resp, sessions>>

(***************************************************************************)
(* Bounds of the model.                                                    *)
(***************************************************************************)
MaxFeedback == 3    \* feedback documents the store is let to hold
MaxInflight == 2    \* requests suspended at the same time
MaxTurns == 9       \* inputs given to one dialogue session

(***************************************************************************)
(* Python text operations.                                                 *)
(***************************************************************************)
UpperLetters == <<"A","B","C","D","E","F","G","H","I","J","K","L","M",
                  "N","O","P","Q","R","S","T","U","V","W","X","Y","Z">>
LowerLetters == <<"a","b","c","d","e","f","g","h","i","j","k","l","m",
                  "n","o","p","q","r","s","t","u","v","w","x","y","z">>

LowerChar(c) ==
    IF \E i \in 1..Len(UpperLetters) : UpperLetters[i] = c
    THEN LowerLetters[CHOOSE i \in 1..Len(UpperLetters) : UpperLetters[i] = c]
    ELSE c

\* str.lower()
Lower(s) == [i \in 1..Len(s) |-> LowerChar(s[i])]

\* str.upper()
Upper(s) ==
    [i \in 1..Len(s) |->
        IF \E k \in 1..Len(LowerLetters) : LowerLetters[k] = s[i]
        THEN UpperLetters[CHOOSE k \in 1..Len(LowerLetters) : LowerLetters[k] = s[i]]
        ELSE s[i]]

\* str.capitalize() of a lower-case text
Capitalize(s) == IF s = <<>> THEN s ELSE <<Upper(s)[1]>> \o Tail(s)

\* `sub in s`
Contains(sub, s) ==
    \E i \in 0..(Len(s) - Len(sub)) : SubSeq(s, i + 1, i + Len(sub)) = sub

IsSpace(c) == c \in {" ", "\n", "\t"}

RECURSIVE LStrip(_)
LStrip(s) == IF s # <<>> /\ IsSpace(Head(s)) THEN LStrip(Tail(s)) ELSE s

RECURSIVE RStrip(_)
RStrip(s) ==
    IF s # <<>> /\ IsSpace(s[Len(s)]) THEN RStrip(SubSeq(s, 1, Len(s) - 1)) ELSE s

\* str.strip()
Strip(s) == RStrip(LStrip(s))

\* truthiness of a str
Truthy(s) == s # <<>>

S_completed == <<"c","o","m","p","l","e","t","e","d">>
S_ended     == <<"e","n","d","e","d">>
S_failed    == <<"f","a","i","l","e","d">>

(***************************************************************************)
(* Raw status vocabulary of the call provider, and the placeholder         *)
(* statuses get_call_status substitutes.                                   *)
(***************************************************************************)
R_ended       == <<"e","n","d","e","d">>
R_COMPLETED   == <<"C","O","M","P","L","E","T","E","D">>
R_call_failed == <<"c","a","l","l","-","f","a","i","l","e","d">>
R_in_progress == <<"i","n","-","p","r","o","g","r","e","s","s">>
R_queued      == <<"q","u","e","u","e","d">>
R_none        == <<>>

RawStatuses == {R_ended, R_COMPLETED, R_call_failed, R_in_progress, R_queued}

P_ready         == <<"r","e","a","d","y","_","f","o","r","_","c","l","i","e","n","t","_","i","n","i","t">>
P_timeout_error == <<"t","i","m","e","o","u","t","_","e","r","r","o","r">>
P_network_error == <<"n","e","t","w","o","r","k","_","e","r","r","o","r">>
P_error         == <<"e","r","r","o","r">>
P_in_progress   == <<"i","n","_","p","r","o","g","r","e","s","s">>
P_unknown       == <<"u","n","k","n","o","w","n">>

(***************************************************************************)
(* Values.                                                                 *)
(***************************************************************************)
None == "None"
NoScore == -1                       \* "overallScore": None

Users == {"u1", "u2"}
InterviewIds == {"iv1"}             \* ids the store may hold
RequestIds == {"iv1", "ivX"}        \* ids a request may name; ivX is never stored

RealCallIds == {"c1", "c2"}
\* ids start_interview_call makes up; get_call_status tells them by prefix
MockCallIds == {"web_call_client_side", "mock_timeout_", "mock_network_", "mock_error_"}
WorkflowMockId == "workflow_mock_"

TranscriptUrl == "https://t"

T_empty == <<>>
T_blank == <<" ">>
T_a     == <<"a">>
T_b     == <<"b">>
TranscriptTexts == {T_a, T_b}

DomainStatuses ==
    {"pending", "scheduled", "ai_guided_setup", "inProgress",
     "completed", "failed", "cancelled"}
TerminalStatuses == {"completed", "failed"}

AI_FEEDBACK_SOURCES == {"ai_auto", "ai_on_demand", "legacy_ai"}
MANUAL_FEEDBACK_SOURCE == "manual"

Exists(iv) == iv \in DOMAIN interviews
Doc(iv) == interviews[iv]

\* interview_ref.update(payload): the fields of payload replace those stored
Update(iv, payload) ==
    [interviews EXCEPT ![iv] =
        [f \in DOMAIN @ |-> IF f \in DOMAIN payload THEN payload[f] ELSE @[f]]]

\* interview_ref.set(doc) on a new id
Insert(iv, doc) == [i \in DOMAIN interviews \cup {iv} |->
                        IF i = iv THEN doc ELSE interviews[i]]

\* an interview that is created with a score of 0
NewInterviewScored(uid, status, callId) ==
    [userId |-> uid, status |-> status, vapiCallId |-> callId,
     aiSessionId |-> None, overallScore |-> 0, transcriptUrl |-> None,
     interviewDuration |-> None, audioRecordingUrl |-> None]

NewInterview(uid, status, callId) ==
    [userId |-> uid, status |-> status, vapiCallId |-> callId,
     aiSessionId |-> None, overallScore |-> NoScore, transcriptUrl |-> None,
     interviewDuration |-> None, audioRecordingUrl |-> None]

\* payloads put together key by key: q's keys over p's
Merge(p, q) == [f \in DOMAIN p \cup DOMAIN q |-> IF f \in DOMAIN q THEN q[f] ELSE p[f]]

\* d.get(key): the value under the key, None when the key is missing
Field(d, key) == IF key \in DOMAIN d THEN d[key] ELSE None

FreshIds == InterviewIds \ DOMAIN interviews

\* the store and the request bookkeeping of a process that has just started
EmptyStore ==
    /\ interviews = <<>>
    /\ transcripts = <<>>
    /\ feedback = {}
    /\ inflight = EmptyBag
    /\ resp = [op |-> "none", code |-> 0]
    /\ sessions = <<>>

\* the configuration of a deployment that holds both provider keys and leaves
\* AUTO_GENERATE_AI_FEEDBACK and VAPI_WEBHOOK_SECRET at their defaults
DefaultEnv ==
    [AUTO_GENERATE_AI_FEEDBACK |-> FALSE, VAPI_WEBHOOK_SECRET |-> FALSE,
     vapi_is_configured |-> TRUE, gemini_is_configured |-> TRUE,
     workflow_model |-> TRUE]

Init == EmptyStore /\ env = DefaultEnv

(***************************************************************************)
(* The call provider, as ai_services.VapiInterviewService sees it.  Each   *)
(* request takes its outcome as a parameter.                               *)
(***************************************************************************)
AUTO_INITIATE_WEB_WORKFLOW == TRUE

CallOutcomes ==
    [kind : {"ok"}, id : RealCallIds \cup {None}]
        \cup [kind : {"http_error", "timeout", "network"}]

\* outcomes the provider can give with the key this process holds
CallOutcomesHere ==
    IF env.vapi_is_configured THEN CallOutcomes
    ELSE {o \in CallOutcomes : o.kind # "ok"}

\* start_interview_call: the callId of the response; it never raises
start_interview_call(phone, o) ==
    IF ~phone THEN "web_call_client_side"
    ELSE CASE o.kind = "ok"         -> o.id
           [] o.kind = "timeout"    -> "mock_timeout_"
           [] o.kind = "network"    -> "mock_network_"
           [] o.kind = "http_error" -> "mock_error_"

\* start_workflow_call: the callId of the response; it never raises
start_workflow_call(phone, o) ==
    IF ~env.vapi_is_configured THEN WorkflowMockId
    ELSE IF ~phone /\ ~AUTO_INITIATE_WEB_WORKFLOW THEN "web_call_client_side"
    ELSE IF o.kind = "ok" THEN o.id
    ELSE IF ~phone THEN "web_call_client_side"
    ELSE WorkflowMockId

StatusOutcomes ==
    [kind : {"ok"}, status : RawStatuses \cup {R_none},
     transcriptUrl : {None, TranscriptUrl}]
        \cup [kind : {"http_error", "timeout", "network"}]

\* get_call_status: the status, duration, transcriptUrl and recordingUrl of the
\* result; it never raises.  The duration (seconds, written as text) is the
\* provider's, "0" when the answer has none, and "300" in every answer the
\* client makes up itself
get_call_status(call_id, o) ==
    IF call_id \in MockCallIds
    THEN [status |-> CASE call_id = "web_call_client_side" -> P_ready
                       [] call_id = "mock_timeout_" -> P_timeout_error
                       [] call_id = "mock_network_" -> P_network_error
                       [] OTHER -> P_error,
          transcriptUrl |-> None, duration |-> "300", recordingUrl |-> None]
    ELSE IF ~env.vapi_is_configured
    THEN [status |-> P_in_progress, transcriptUrl |-> None, duration |-> "300",
          recordingUrl |-> None]
    ELSE CASE o.kind = "ok" ->
                [status |-> IF Truthy(o.status) THEN o.status ELSE P_unknown,
                 transcriptUrl |-> o.transcriptUrl,
                 duration |-> IF Field(o, "duration") \in {None, "0"} THEN "0"
                              ELSE o.duration,
                 recordingUrl |-> Field(o, "recordingUrl")]
           [] o.kind = "timeout" ->
                [status |-> P_timeout_error, transcriptUrl |-> None,
                 duration |-> "300", recordingUrl |-> None]
           [] o.kind = "network" ->
                [status |-> P_network_error, transcriptUrl |-> None,
                 duration |-> "300", recordingUrl |-> None]
           [] OTHER ->
                [status |-> P_error, transcriptUrl |-> None,
                 duration |-> "300", recordingUrl |-> None]

\* a 200 answer joins the turns as "role: message" lines, so its text is
\* empty or holds a non-space character
TranscriptOutcomes ==
    [kind : {"ok"}, text : TranscriptTexts \cup {T_empty}]
        \cup [kind : {"not_found", "error"}]

\* get_call_transcript: Optional[str]; isNone stands for the None result
get_call_transcript(o) ==
    IF o.kind = "ok" THEN [isNone |-> FALSE, text |-> o.text]
    ELSE [isNone |-> TRUE, text |-> T_empty]

\* `x or ""`
OrEmpty(t) == IF t.isNone THEN T_empty ELSE t.text

\* stop_call: each variant is accepted (200, 202, 204), rejected or raises
StopVariants == <<"patch-action", "patch-empty", "post-actions", "post-end", "delete-call">>
AttemptOutcomes == {"accepted", "rejected", "raises"}

RECURSIVE stop_attempts(_, _)
stop_attempts(outs, k) ==
    IF k > Len(StopVariants) THEN [ok |-> FALSE, sent |-> Len(StopVariants)]
    ELSE IF outs[k] = "accepted" THEN [ok |-> TRUE, sent |-> k]
    ELSE stop_attempts(outs, k + 1)

\* a stop that sends the first variant only
stop_call_once(o) ==
    IF ~o.client THEN [ok |-> FALSE, sent |-> 0]
    ELSE [ok |-> o.outs[1] = "accepted", sent |-> 1]

\* o.client = FALSE: building the client raised, the outer except returns False
stop_call(o) ==
    IF ~o.client THEN [ok |-> FALSE, sent |-> 0]
    ELSE stop_attempts(o.outs, 1)

\* main.stop_vapi_call: never raises
stop_vapi_call(o) == stop_call(o).ok

Uniform(x) == [k \in 1..Len(StopVariants) |-> x]
AcceptedAt(k, before) ==
    [j \in 1..Len(StopVariants) |->
        IF j < k THEN before ELSE IF j = k THEN "accepted" ELSE "rejected"]

StopOutcomes ==
    {[client |-> FALSE, outs |-> Uniform("raises")]}
        \cup {[client |-> TRUE, outs |-> Uniform(x)] : x \in {"rejected", "raises"}}
        \cup {[client |-> TRUE, outs |-> AcceptedAt(k, b)] :
                k \in 1..Len(StopVariants), b \in {"rejected", "raises"}}

(***************************************************************************)
(* The analysis provider, as ai_services.GeminiAnalysisService sees it.    *)
(***************************************************************************)
\* the recommendation tokens the prompt asks for, and one it does not
K_hire ==
    <<"h","i","r","e">>
K_strong_hire ==
    <<"s","t","r","o","n","g","_","h","i","r","e">>
K_conditional_hire ==
    <<"c","o","n","d","i","t","i","o","n","a","l","_","h","i","r","e">>
K_no_hire ==
    <<"n","o","_","h","i","r","e">>
K_reject ==
    <<"r","e","j","e","c","t">>
K_maybe ==
    <<"m","a","y","b","e">>

\* the narratives of _map_ai_recommendation and _format_recommendation
N_strong_hire ==
    <<"S","t","r","o","n","g"," ","H","i","r","e"," ","-"," ","R","e","c",
      "o","m","m","e","n","d","e","d"," ","f","o","r"," ","i","m","m","e",
      "d","i","a","t","e"," ","o","f","f","e","r">>
N_conditional_hire ==
    <<"C","o","n","d","i","t","i","o","n","a","l"," ","H","i","r","e"," ",
      "-"," ","R","e","c","o","m","m","e","n","d"," ","a","d","d","i","t",
      "i","o","n","a","l"," ","a","s","s","e","s","s","m","e","n","t">>
N_no_hire ==
    <<"N","o"," ","H","i","r","e"," ","-"," ","D","o","e","s"," ","n","o",
      "t"," ","m","e","e","t"," ","c","u","r","r","e","n","t"," ","r","e",
      "q","u","i","r","e","m","e","n","t","s">>
N_review_recommended ==
    <<"R","e","v","i","e","w"," ","R","e","c","o","m","m","e","n","d","e",
      "d"," ","-"," ","A","d","d","i","t","i","o","n","a","l"," ","e","v",
      "a","l","u","a","t","i","o","n"," ","s","u","g","g","e","s","t","e",
      "d">>
N_review_required ==
    <<"R","e","v","i","e","w"," ","R","e","q","u","i","r","e","d"," ","-",
      " ","A","d","d","i","t","i","o","n","a","l"," ","e","v","a","l","u",
      "a","t","i","o","n"," ","n","e","e","d","e","d">>
\* the narratives of the two fallback analyses
N_further_review ==
    <<"F","u","r","t","h","e","r"," ","r","e","v","i","e","w"," ","r","e",
      "c","o","m","m","e","n","d","e","d"," ","b","a","s","e","d"," ","o",
      "n"," ","A","I"," ","a","n","a","l","y","s","i","s">>
N_manual_review ==
    <<"M","a","n","u","a","l"," ","r","e","v","i","e","w"," ","r","e","q",
      "u","i","r","e","d"," ","-"," ","A","I"," ","a","n","a","l","y","s",
      "i","s"," ","u","n","a","v","a","i","l","a","b","l","e">>

ProviderScores == {88, 150}

\* a well-formed answer of the provider: the JSON object of response.text.
\* Confidences are counted in hundredths (0.8 is 80); keyInsights is the JSON
\* type of that field: "list", "text" or "missing"
JsonAnswer ==
    [kind |-> "json", hasScore |-> TRUE, scoreIsNumber |-> TRUE,
     overallScore |-> 88, hasConfidence |-> TRUE, confidenceLevel |-> 90,
     hasToken |-> TRUE, hiringRecommendation |-> K_hire, keyInsights |-> "list"]

AnalysisOutcomes ==
    {[JsonAnswer EXCEPT !.overallScore = s] : s \in ProviderScores}
        \cup {[JsonAnswer EXCEPT !.hasScore = FALSE, !.overallScore = 0]}
        \cup [kind : {"non_json", "raises"}]

Max(a, b) == IF a >= b THEN a ELSE b
Min(a, b) == IF a <= b THEN a ELSE b

\* dict.get(key, default)
Get(d, key, default) == IF key \in DOMAIN d THEN d[key] ELSE default

\* a score that is stored as the provider gave it
ScoreAsGiven(x) == x

\* max(1, min(100, overallScore))
ClampScore(x) == Max(1, Min(100, x))

\* max(0.0, min(1.0, confidenceLevel)), in hundredths
ClampConfidence(x) == Max(0, Min(100, x))

_format_recommendation(recommendation) ==
    CASE Lower(recommendation) = K_hire -> N_strong_hire
      [] Lower(recommendation) = K_conditional_hire -> N_conditional_hire
      [] Lower(recommendation) = K_no_hire -> N_no_hire
      [] OTHER -> N_review_required

_fallback_analysis ==
    [overallScore |-> 78, confidenceScore |-> 75,
     recommendation |-> N_further_review, keyInsights |-> "list"]

_emergency_fallback_analysis ==
    [overallScore |-> 70, confidenceScore |-> 50,
     recommendation |-> N_manual_review, keyInsights |-> "list"]

\* analyze_interview_transcript: the analysis dict; it never raises.  A score
\* or confidence that is not a number makes max/min raise, which the outer
\* handler turns into the emergency fallback; the dict has no
\* hiringRecommendation key on any path
analyze_interview_transcript(o) ==
    IF ~env.gemini_is_configured THEN _fallback_analysis
    ELSE CASE o.kind = "json" ->
                IF o.hasScore /\ ~o.scoreIsNumber THEN _emergency_fallback_analysis
                ELSE [overallScore |->
                        ClampScore(IF o.hasScore THEN o.overallScore ELSE 75),
                      confidenceScore |->
                        ClampConfidence(IF o.hasConfidence THEN o.confidenceLevel
                                        ELSE 80),
                      recommendation |->
                        _format_recommendation(
                            IF o.hasToken THEN o.hiringRecommendation
                            ELSE K_conditional_hire),
                      keyInsights |->
                        IF o.keyInsights = "missing" THEN "list" ELSE o.keyInsights]
           [] o.kind = "non_json" -> _fallback_analysis
           [] OTHER -> _emergency_fallback_analysis

(***************************************************************************)
(* Feedback documents.                                                     *)
(***************************************************************************)
\* a token that is looked up as it was given
TokenAsGiven(raw) == raw

\* str(...).strip().lower()
NormalizeToken(raw) == Lower(Strip(raw))

\* mapping.get(raw, default) of _map_ai_recommendation
RecommendationTable(raw) ==
    CASE raw \in {K_hire, K_strong_hire} -> <<"recommended", N_strong_hire>>
      [] raw = K_conditional_hire -> <<"conditionallyRecommended", N_conditional_hire>>
      [] raw \in {K_no_hire, K_reject} -> <<"notRecommended", N_no_hire>>
      [] OTHER -> <<"conditionallyRecommended", N_review_recommended>>

\* _map_ai_recommendation; a missing narrative is falsy like the empty one
_map_ai_recommendation(analysis) ==
    LET raw == NormalizeToken(Get(analysis, "hiringRecommendation", T_empty))
        narrative == Get(analysis, "recommendation", T_empty)
        entry == RecommendationTable(raw)
    IN  [final_verdict |-> entry[1],
         narrative |-> IF ~Truthy(narrative) \/ ~Truthy(Strip(narrative))
                       THEN entry[2] ELSE narrative]

\* uuid4 ids and _now_iso stamps, kept as the order of creation
NextFeedbackId == Cardinality(feedback) + 1

_build_ai_feedback_payload(iv, uid, analysis, source) ==
    [id |-> NextFeedbackId, interviewId |-> iv, userId |-> uid,
     source |-> source, overallScore |-> Get(analysis, "overallScore", 75),
     keyInsights |-> Get(analysis, "keyInsights", "list"),
     confidenceScore |-> Get(analysis, "confidenceScore", 75),
     finalVerdict |-> _map_ai_recommendation(analysis).final_verdict,
     recommendation |-> _map_ai_recommendation(analysis).narrative,
     createdAt |-> NextFeedbackId]

\* the candidates of _select_latest_ai_feedback
AiCandidates(docs) == {d \in docs : d.source \in AI_FEEDBACK_SOURCES}

\* _select_latest_ai_feedback on a list with a candidate
_select_latest_ai_feedback(docs) ==
    CHOOSE d \in AiCandidates(docs) :
        \A e \in AiCandidates(docs) : e.createdAt <= d.createdAt

_feedback_doc_to_response(d) ==
    [aiAnalysisId |-> d.id, interviewId |-> d.interviewId,
     overallScore |-> d.overallScore, keyInsights |-> d.keyInsights,
     confidenceScore |-> d.confidenceScore, recommendation |-> d.recommendation,
     source |-> d.source]

\* AIFeedbackResponse(**payload): TRUE when the payload validates; keyInsights
\* is declared List[str], the other modelled fields hold values of their type
AIFeedbackResponse(payload) == payload.keyInsights = "list"

AiArtifacts(iv) == {d \in feedback : d.interviewId = iv /\ d.source \in AI_FEEDBACK_SOURCES}

(***************************************************************************)
(* Request handlers of main.py.  A handler runs from request to response   *)
(* in one step; resp' names the handler and its HTTP status.               *)
(***************************************************************************)
Reply(op, code) == resp' = [op |-> op, code |-> code]

StoreUnchanged == UNCHANGED <<interviews, transcripts, feedback>>

\* the 404 / 403 of a handler that loads the interview and checks its owner
AccessCode(iv, uid) ==
    IF ~Exists(iv) THEN 404
    ELSE IF Doc(iv).userId # uid THEN 403
    ELSE 200

\* POST /interviews
create_interview(uid, status) ==
    /\ \E iv \in FreshIds :
          interviews' = Insert(iv, NewInterview(uid, status, None))
    /\ Reply("create_interview", 200)
    /\ UNCHANGED <<transcripts, feedback, env, inflight, sessions>>

\* a handler that gives up on the record when the provider gives no call
create_ai_guided_interview_needs_call(uid, phone, o) ==
    /\ IF o.kind = "ok"
       THEN \E iv \in FreshIds :
              interviews' = Insert(iv, NewInterview(uid, "ai_guided_setup",
                                                    start_workflow_call(phone, o)))
       ELSE FreshIds # {} /\ UNCHANGED interviews
    /\ resp' = [op |-> "create_ai_guided_interview", code |-> 200,
                outcome |-> o.kind, hasInterviewId |-> FALSE]
    /\ UNCHANGED <<transcripts, feedback, env, inflight, sessions>>

\* POST /interviews/ai-guided
create_ai_guided_interview(uid, phone, o) ==
    LET call_id == start_workflow_call(phone, o) IN
    /\ \E iv \in FreshIds :
          interviews' = Insert(iv, NewInterview(uid, "ai_guided_setup", call_id))
    \* a response without a call id fails validation: the mock answer is returned
    /\ resp' = [op |-> "create_ai_guided_interview", code |-> 200,
                outcome |-> o.kind, hasInterviewId |-> (call_id # None)]
    /\ UNCHANGED <<transcripts, feedback, env, inflight, sessions>>

\* POST /workflow/{session_id}/finalize
workflow_finalize(uid, known, autoStart, o) ==
    IF ~known
    THEN /\ Reply("workflow_finalize", 404)
         /\ StoreUnchanged
         /\ UNCHANGED <<env, inflight, sessions>>
    ELSE /\ \E iv \in FreshIds :
              interviews' =
                IF autoStart
                THEN Insert(iv, [NewInterview(uid, "inProgress",
                                              start_interview_call(FALSE, o))
                                    EXCEPT !.aiSessionId = "set"])
                ELSE Insert(iv, NewInterview(uid, "scheduled", None))
         /\ resp' = [op |-> "workflow_finalize", code |-> 200,
                     outcome |-> o.kind, autoStart |-> autoStart]
         /\ UNCHANGED <<transcripts, feedback, env, inflight, sessions>>

\* a start that places the call before it loads the interview
start_ai_interview_call_first(iv, uid, phone, o) ==
    /\ IF start_interview_call(phone, o) = None
       THEN Reply("start_ai_interview", 500) /\ StoreUnchanged
       ELSE IF AccessCode(iv, uid) # 200
       THEN Reply("start_ai_interview", AccessCode(iv, uid)) /\ StoreUnchanged
       ELSE /\ interviews' = Update(iv, [aiSessionId |-> "set",
                                         vapiCallId |-> start_interview_call(phone, o),
                                         status |-> "inProgress"])
            /\ Reply("start_ai_interview", 200)
            /\ UNCHANGED <<transcripts, feedback>>
    /\ UNCHANGED <<env, inflight, sessions>>

\* POST /interviews/{id}/start-ai
start_ai_interview(iv, uid, phone, o) ==
    LET call_id == start_interview_call(phone, o) IN
    /\ IF AccessCode(iv, uid) # 200
       THEN Reply("start_ai_interview", AccessCode(iv, uid)) /\ StoreUnchanged
       ELSE IF call_id = None
       THEN Reply("start_ai_interview", 500) /\ StoreUnchanged
       ELSE /\ interviews' = Update(iv, [aiSessionId |-> "set",
                                         vapiCallId |-> call_id,
                                         status |-> "inProgress"])
            /\ Reply("start_ai_interview", 200)
            /\ UNCHANGED <<transcripts, feedback>>
    /\ UNCHANGED <<env, inflight, sessions>>

\* the is_completed test of the status poll
PollIsCompleted(status_val) ==
    LET normalized == Lower(status_val) IN
        \/ normalized = S_completed
        \/ normalized = S_ended
        \/ Contains(S_completed, normalized)
        \/ Contains(S_ended, normalized)

\* the update_payload of the status poll, without updatedAt
PollPayload(iv, vapi_status) ==
    LET transcript_url == vapi_status.transcriptUrl
        p0 == IF vapi_status.duration # None
              THEN [interviewDuration |-> vapi_status.duration] ELSE <<>>
        p1 == IF transcript_url # None
              THEN [transcriptUrl |-> transcript_url] ELSE <<>>
        p2 == IF PollIsCompleted(vapi_status.status) /\ Doc(iv).status # "completed"
              THEN [status |-> "completed"] ELSE <<>>
        p3 == IF vapi_status.recordingUrl # None
              THEN [audioRecordingUrl |-> vapi_status.recordingUrl] ELSE <<>>
    IN  Merge(Merge(p0, p1), Merge(p2, p3))

\* GET /interviews/{id}/ai-status
get_ai_interview_status(iv, uid, o) ==
    /\ IF AccessCode(iv, uid) # 200
       THEN Reply("get_ai_interview_status", AccessCode(iv, uid)) /\ StoreUnchanged
       ELSE IF Doc(iv).aiSessionId = None
       THEN Reply("get_ai_interview_status", 404) /\ StoreUnchanged
       ELSE IF Doc(iv).vapiCallId = None
       THEN Reply("get_ai_interview_status", 200) /\ StoreUnchanged
       ELSE /\ interviews' =
                  Update(iv, PollPayload(iv, get_call_status(Doc(iv).vapiCallId, o)))
            /\ Reply("get_ai_interview_status", 200)
            /\ UNCHANGED <<transcripts, feedback>>
    /\ UNCHANGED <<env, inflight, sessions>>

PutTranscript(iv, uid, text) ==
    [i \in DOMAIN transcripts \cup {iv} |->
        IF i = iv THEN [userId |-> uid, transcript |-> text] ELSE transcripts[i]]

\* complete_ai_interview after its access checks: the status request and the
\* transcript request are awaited one after the other when a call id is set,
\* with no access to the store in between; the transcript is written with set
\* whether or not one is stored
complete_ai_interview_finish(iv, uid, vapi_call_id, so, to) ==
    LET vapi_status == get_call_status(vapi_call_id, so)
        transcript_text == get_call_transcript(to)
        stored == vapi_call_id # None /\ ~transcript_text.isNone
                    /\ Truthy(transcript_text.text)
                    /\ Truthy(Strip(transcript_text.text))
        p0 == IF vapi_status.duration \notin {None, "0"}
              THEN [interviewDuration |-> vapi_status.duration] ELSE <<>>
        p1 == IF vapi_status.transcriptUrl # None
              THEN [transcriptUrl |-> vapi_status.transcriptUrl] ELSE <<>>
        p3 == IF vapi_status.recordingUrl # None
              THEN [audioRecordingUrl |-> vapi_status.recordingUrl] ELSE <<>>
    IN  /\ interviews' =
              IF vapi_call_id # None
              THEN Update(iv, Merge([status |-> "completed"],
                                    Merge(p0, Merge(p1, p3))))
              ELSE Update(iv, [status |-> "completed"])
        /\ transcripts' =
              IF stored THEN PutTranscript(iv, uid, transcript_text.text)
              ELSE transcripts
        \* transcriptRequest: the handler has asked the provider for the transcript
        /\ resp' = [op |-> "complete_ai_interview", code |-> 200,
                    transcriptGenerated |-> stored,
                    transcriptRequest |-> vapi_call_id # None]
        /\ UNCHANGED feedback

\* POST /interviews/{id}/complete-ai
complete_ai_interview(iv, uid, so, to) ==
    /\ IF AccessCode(iv, uid) # 200
       THEN Reply("complete_ai_interview", AccessCode(iv, uid)) /\ StoreUnchanged
       ELSE complete_ai_interview_finish(iv, uid, Doc(iv).vapiCallId, so, to)
    /\ UNCHANGED <<env, inflight, sessions>>

\* the handler up to its first await
complete_ai_interview_begin(iv, uid) ==
    /\ UNCHANGED <<env, sessions>>
    /\ IF AccessCode(iv, uid) # 200
       THEN /\ Reply("complete_ai_interview", AccessCode(iv, uid))
            /\ StoreUnchanged /\ UNCHANGED inflight
       ELSE IF Doc(iv).vapiCallId = None
       THEN \* no request is made, so no answer is read
            /\ complete_ai_interview_finish(iv, uid, None, [kind |-> "http_error"],
                                            [kind |-> "not_found"])
            /\ UNCHANGED inflight
       ELSE /\ BagCardinality(inflight) < MaxInflight
            /\ inflight' = inflight (+) SetToBag(
                  {[handler |-> "complete_ai_interview", iv |-> iv, uid |-> uid,
                    vapi_call_id |-> Doc(iv).vapiCallId,
                    sawNone |-> iv \notin DOMAIN transcripts]})
            /\ UNCHANGED <<interviews, transcripts, feedback, resp>>

\* the handler resumed with the answers of the two provider requests
complete_ai_interview_resume(l, so, to) ==
    /\ BagIn(l, inflight)
    /\ l.handler = "complete_ai_interview"
    /\ complete_ai_interview_finish(l.iv, l.uid, l.vapi_call_id, so, to)
    /\ inflight' = inflight (-) SetToBag({l})
    /\ UNCHANGED <<env, sessions>>

\* get_interview_transcript from the answer of the transcript request on
get_interview_transcript_finish(iv, uid, transcript_text) ==
    IF /\ ~transcript_text.isNone
       /\ Truthy(transcript_text.text)
       /\ Truthy(Strip(transcript_text.text))
    THEN /\ transcripts' = PutTranscript(iv, uid, transcript_text.text)
         /\ resp' = [op |-> "get_interview_transcript", code |-> 200,
                     source |-> "vapi_api"]
         /\ UNCHANGED <<interviews, feedback>>
    ELSE Reply("get_interview_transcript", 404) /\ StoreUnchanged

\* get_interview_transcript when it answers without a provider request
get_interview_transcript_return(iv, uid) ==
    IF AccessCode(iv, uid) # 200
    THEN Reply("get_interview_transcript", AccessCode(iv, uid)) /\ StoreUnchanged
    ELSE IF iv \in DOMAIN transcripts
    THEN /\ resp' = [op |-> "get_interview_transcript", code |-> 200,
                     source |-> "stored"]
         /\ StoreUnchanged
    ELSE Reply("get_interview_transcript", 404) /\ StoreUnchanged

\* TRUE when get_interview_transcript asks the provider for the transcript
TranscriptNeedsFetch(iv, uid) ==
    /\ AccessCode(iv, uid) = 200
    /\ iv \notin DOMAIN transcripts
    /\ Doc(iv).vapiCallId # None

\* GET /interviews/{id}/transcript
get_interview_transcript(iv, uid, to) ==
    /\ IF TranscriptNeedsFetch(iv, uid)
       THEN get_interview_transcript_finish(iv, uid, get_call_transcript(to))
       ELSE get_interview_transcript_return(iv, uid)
    /\ UNCHANGED <<env, inflight, sessions>>

\* the handler up to its await
get_interview_transcript_begin(iv, uid) ==
    /\ UNCHANGED <<env, sessions>>
    /\ IF TranscriptNeedsFetch(iv, uid)
       THEN /\ BagCardinality(inflight) < MaxInflight
            /\ inflight' = inflight (+) SetToBag(
                  {[handler |-> "get_interview_transcript", iv |-> iv, uid |-> uid,
                    sawNone |-> TRUE]})
            /\ UNCHANGED <<interviews, transcripts, feedback, resp>>
       ELSE get_interview_transcript_return(iv, uid) /\ UNCHANGED inflight

\* the handler resumed with the answer of the transcript request
get_interview_transcript_resume(l, to) ==
    /\ BagIn(l, inflight)
    /\ l.handler = "get_interview_transcript"
    /\ get_interview_transcript_finish(l.iv, l.uid, get_call_transcript(to))
    /\ inflight' = inflight (-) SetToBag({l})
    /\ UNCHANGED <<env, sessions>>

\* POST /interviews/{id}/vapi-call-id
update_vapi_call_id(iv, uid, callId) ==
    /\ IF AccessCode(iv, uid) # 200
       THEN Reply("update_vapi_call_id", AccessCode(iv, uid)) /\ StoreUnchanged
       ELSE /\ interviews' = Update(iv, [vapiCallId |-> callId,
                                         status |-> "inProgress"])
            /\ Reply("update_vapi_call_id", 200)
            /\ UNCHANGED <<transcripts, feedback>>
    /\ UNCHANGED <<env, inflight, sessions>>

\* a stop that cancels the record only once the provider has accepted the stop
stop_ai_interview_remote_first(iv, uid, o) ==
    /\ IF AccessCode(iv, uid) # 200
       THEN Reply("stop_ai_interview", AccessCode(iv, uid)) /\ StoreUnchanged
       ELSE IF Doc(iv).vapiCallId # None /\ ~stop_vapi_call(o)
       THEN Reply("stop_ai_interview", 500) /\ StoreUnchanged
       ELSE /\ interviews' = Update(iv, [status |-> "cancelled"])
            /\ resp' = [op |-> "stop_ai_interview", code |-> 200,
                        remote |-> IF Doc(iv).vapiCallId # None
                                   THEN "stopped" ELSE "no_call"]
            /\ UNCHANGED <<transcripts, feedback>>
    /\ UNCHANGED <<env, inflight, sessions>>

\* POST /interviews/{id}/stop-ai
stop_ai_interview(iv, uid, o) ==
    /\ IF AccessCode(iv, uid) # 200
       THEN Reply("stop_ai_interview", AccessCode(iv, uid)) /\ StoreUnchanged
       ELSE /\ interviews' = Update(iv, [status |-> "cancelled"])
            /\ resp' = [op |-> "stop_ai_interview", code |-> 200,
                        remote |-> IF Doc(iv).vapiCallId # None
                                   THEN IF stop_vapi_call(o) THEN "stopped"
                                        ELSE "not_stopped"
                                   ELSE "no_call"]
            /\ UNCHANGED <<transcripts, feedback>>
    /\ UNCHANGED <<env, inflight, sessions>>

ManualScores == {60}

\* POST /interviews/{id}/feedback
create_feedback(iv, uid, score) ==
    /\ IF AccessCode(iv, uid) # 200
       THEN Reply("create_feedback", AccessCode(iv, uid)) /\ StoreUnchanged
       ELSE /\ Cardinality(feedback) < MaxFeedback
            /\ feedback' = feedback \cup
                  {[id |-> NextFeedbackId, interviewId |-> iv, userId |-> uid,
                    source |-> MANUAL_FEEDBACK_SOURCE, overallScore |-> score,
                    createdAt |-> NextFeedbackId]}
            /\ interviews' = Update(iv, [overallScore |-> score,
                                         status |-> "completed"])
            /\ Reply("create_feedback", 200)
            /\ UNCHANGED transcripts
    /\ UNCHANGED <<env, inflight, sessions>>

(***************************************************************************)
(* Feedback synthesis on demand: GET /interviews/{id}/ai-feedback.         *)
(* The handler is suspended only where it awaits the network, which is     *)
(* the transcript request made when no transcript is stored; the analysis  *)
(* call blocks without yielding.                                           *)
(***************************************************************************)
T_placeholder == <<"T","r","a","n","s","c","r","i","p","t"," ","n","o","t"," ",
                   "a","v","a","i","l","a","b","l","e",".">>

StoredTranscript(iv) ==
    IF iv \in DOMAIN transcripts THEN transcripts[iv].transcript ELSE T_empty

\* the feedback query of get_ai_feedback
FeedbackDocsOf(iv, uid) == {d \in feedback : d.interviewId = iv /\ d.userId = uid}

\* a check that never finds the stored artifact
get_ai_feedback_existing_never(iv, uid) == FALSE

\* the existing-artifact check of get_ai_feedback: TRUE when an artifact is found
get_ai_feedback_existing(iv, uid) == AiCandidates(FeedbackDocsOf(iv, uid)) # {}

\* early returns that take any stored feedback for a reason not to synthesize
get_ai_feedback_early_manual_blocks(iv, uid, force) ==
    IF AccessCode(iv, uid) # 200 THEN AccessCode(iv, uid)
    ELSE IF Doc(iv).status # "completed" THEN 400
    ELSE IF get_ai_feedback_existing(iv, uid) THEN 200
    ELSE IF FeedbackDocsOf(iv, uid) # {} THEN 400
    ELSE 0

\* the early returns of get_ai_feedback, 0 when it goes on to the transcript
get_ai_feedback_early(iv, uid, force) ==
    IF AccessCode(iv, uid) # 200 THEN AccessCode(iv, uid)
    ELSE IF Doc(iv).status # "completed" THEN 400
    ELSE IF get_ai_feedback_existing(iv, uid) THEN 200
    ELSE 0

FeedbackNeedsFetch(iv) ==
    ~Truthy(StoredTranscript(iv)) /\ Doc(iv).vapiCallId # None

\* a synthesis that goes on with the placeholder whether or not force is set
get_ai_feedback_finish_always(iv, uid, force, text, ao) ==
    LET analysis == analyze_interview_transcript(ao)
        feedback_doc == _build_ai_feedback_payload(iv, uid, analysis, "ai_on_demand")
    IN  /\ Cardinality(feedback) < MaxFeedback
        /\ feedback' = feedback \cup {feedback_doc}
        /\ interviews' = Update(iv, [overallScore |-> feedback_doc.overallScore])
        /\ resp' = [op |-> "get_ai_feedback", code |-> 200, force |-> force,
                    body |-> _feedback_doc_to_response(feedback_doc),
                    generated |-> TRUE]
        /\ UNCHANGED transcripts

\* get_ai_feedback from the strip() test to the response, with the transcript
\* text the handler holds by then
get_ai_feedback_finish(iv, uid, force, text, ao) ==
    IF ~Truthy(Strip(text)) /\ ~force
    THEN /\ resp' = [op |-> "get_ai_feedback", code |-> 202, force |-> force]
         /\ StoreUnchanged
    ELSE LET transcript_text == IF Truthy(Strip(text)) THEN text ELSE T_placeholder
             analysis == analyze_interview_transcript(ao)
             feedback_doc == _build_ai_feedback_payload(iv, uid, analysis, "ai_on_demand")
         IN  /\ Cardinality(feedback) < MaxFeedback
             /\ feedback' = feedback \cup {feedback_doc}
             /\ interviews' = Update(iv, [overallScore |-> feedback_doc.overallScore])
             \* the response model is built after the writes; a payload it
             \* rejects raises into the outer handler
             /\ resp' = IF AIFeedbackResponse(_feedback_doc_to_response(feedback_doc))
                        THEN [op |-> "get_ai_feedback", code |-> 200, force |-> force,
                              body |-> _feedback_doc_to_response(feedback_doc),
                              generated |-> TRUE]
                        ELSE [op |-> "get_ai_feedback", code |-> 500, force |-> force]
             /\ UNCHANGED transcripts

\* get_ai_feedback up to the point where it would await the transcript request
get_ai_feedback_return(iv, uid, force) ==
    /\ IF get_ai_feedback_early(iv, uid, force) = 200
       THEN resp' = IF AIFeedbackResponse(_feedback_doc_to_response(
                            _select_latest_ai_feedback(FeedbackDocsOf(iv, uid))))
                    THEN [op |-> "get_ai_feedback", code |-> 200, force |-> force,
                          body |-> _feedback_doc_to_response(
                                    _select_latest_ai_feedback(FeedbackDocsOf(iv, uid))),
                          generated |-> FALSE]
                    ELSE [op |-> "get_ai_feedback", code |-> 500, force |-> force]
       ELSE resp' = [op |-> "get_ai_feedback",
                     code |-> get_ai_feedback_early(iv, uid, force), force |-> force]
    /\ StoreUnchanged

\* the whole handler, with no other request in between
get_ai_feedback(iv, uid, force, to, ao) ==
    /\ IF get_ai_feedback_early(iv, uid, force) # 0
       THEN get_ai_feedback_return(iv, uid, force)
       ELSE get_ai_feedback_finish(iv, uid, force,
                IF FeedbackNeedsFetch(iv) THEN OrEmpty(get_call_transcript(to))
                ELSE StoredTranscript(iv), ao)
    /\ UNCHANGED <<env, inflight, sessions>>

\* the handler up to its first await
get_ai_feedback_begin(iv, uid, force, ao) ==
    /\ UNCHANGED <<env, sessions>>
    /\ IF get_ai_feedback_early(iv, uid, force) # 0
       THEN get_ai_feedback_return(iv, uid, force) /\ UNCHANGED inflight
       ELSE IF ~FeedbackNeedsFetch(iv)
       THEN /\ get_ai_feedback_finish(iv, uid, force, StoredTranscript(iv), ao)
            /\ UNCHANGED inflight
       ELSE /\ BagCardinality(inflight) < MaxInflight
            /\ inflight' = inflight (+) SetToBag(
                  {[handler |-> "get_ai_feedback", iv |-> iv, uid |-> uid,
                    force |-> force]})
            /\ UNCHANGED <<interviews, transcripts, feedback, resp>>

\* the handler resumed with the answer of the transcript request
get_ai_feedback_resume(l, to, ao) ==
    /\ BagIn(l, inflight)
    /\ l.handler = "get_ai_feedback"
    /\ get_ai_feedback_finish(l.iv, l.uid, l.force, OrEmpty(get_call_transcript(to)), ao)
    /\ inflight' = inflight (-) SetToBag({l})
    /\ UNCHANGED <<env, sessions>>

(***************************************************************************)
(* The webhook: POST /webhooks/vapi.                                       *)
(***************************************************************************)
WebhookEvents ==
    [kind : {"event"},
     call_id : RealCallIds \cup {None},
     status : RawStatuses \cup {R_none},
     transcriptUrl : {None, TranscriptUrl},
     interviewId : RequestIds \cup {None},
     sig : {"absent", "valid", "invalid", "non_ascii"}]
        \cup {[kind |-> "malformed", sig |-> "absent"]}

FetchOutcomes ==
    [kind : {"ok"}, text : TranscriptTexts \cup {T_empty, T_blank}]
        \cup [kind : {"non_200", "raises"}]

\* a normalization that knows the two words only when they stand alone
WebhookNormalizeExact(status) ==
    IF status = S_completed \/ status = S_ended THEN "completed"
    ELSE IF status = S_failed THEN "failed"
    ELSE "inProgress"

\* the status normalization of the webhook, on the lower-cased string
WebhookNormalize(status) ==
    IF Contains(S_completed, status) \/ Contains(S_ended, status) \/ status = S_completed
    THEN "completed"
    ELSE IF Contains(S_failed, status) \/ status = S_failed
    THEN "failed"
    ELSE "inProgress"

\* a signature check that lets every event through
WebhookRejectsNothing(e) == FALSE

\* the signature check: TRUE when the event is rejected.  sig is the header
\* against the HMAC of the body: absent, equal to it ("valid"), an ASCII string
\* that differs ("invalid"), or a string with a character outside ASCII, on
\* which hmac.compare_digest raises TypeError and the handler goes on
WebhookRejects(e) == env.VAPI_WEBHOOK_SECRET /\ e.sig = "invalid"

\* the interviews the lookup can settle on: the one metadata names when it is
\* stored, else one whose vapiCallId is the event's call id
WebhookTargets(e) ==
    IF e.interviewId # None /\ Exists(e.interviewId) THEN {e.interviewId}
    ELSE IF e.call_id # None
    THEN {i \in DOMAIN interviews : Doc(i).vapiCallId = e.call_id}
    ELSE {}

\* update_payload of the webhook, without updatedAt
WebhookPayload(iv, e) ==
    LET status == Lower(e.status)
        p1 == IF Truthy(status) THEN [status |-> WebhookNormalize(status)] ELSE <<>>
        p2 == IF e.transcriptUrl # None
              THEN [transcriptUrl |-> e.transcriptUrl] ELSE <<>>
        p3 == IF e.call_id # None /\ Doc(iv).vapiCallId = None
              THEN [vapiCallId |-> e.call_id] ELSE <<>>
        \* event.get("duration") or event.get("callDuration"): 0 counts as none
        p4 == IF Field(e, "duration") \notin {None, "0"}
              THEN [interviewDuration |-> e.duration] ELSE <<>>
        p5 == IF Field(e, "recordingUrl") # None
              THEN [audioRecordingUrl |-> e.recordingUrl] ELSE <<>>
    IN  Merge(Merge(p1, p2), Merge(p3, Merge(p4, p5)))

\* the condition under which the webhook goes on to synthesis
WebhookSynthesizes(iv, e) ==
    /\ env.AUTO_GENERATE_AI_FEEDBACK
    /\ "status" \in DOMAIN WebhookPayload(iv, e)
    /\ WebhookPayload(iv, e).status = "completed"
    /\ AiCandidates({d \in feedback : d.interviewId = iv}) = {}

\* the transcript URL the webhook would download
WebhookTurl(iv, e) ==
    IF e.transcriptUrl # None THEN e.transcriptUrl ELSE Doc(iv).transcriptUrl

WebhookNeedsFetch(iv, e) ==
    ~Truthy(StoredTranscript(iv)) /\ (WebhookTurl(iv, e) # None \/ e.call_id # None)

\* the transcript text after the download and the provider request
WebhookFetched(turl, call_id, fo, to) ==
    LET t1 == IF turl # None /\ fo.kind = "ok" THEN fo.text ELSE T_empty
    IN  IF ~Truthy(t1) /\ call_id # None THEN OrEmpty(get_call_transcript(to)) ELSE t1

\* the webhook from `if transcript_text:` to the response; base is the
\* interviews collection the handler has left behind so far
vapi_webhook_finish(base, iv, uid, text, ao, sig) ==
    \* auto: the artifact is written, or the handler logs "transcript unavailable"
    /\ resp' = [op |-> "vapi_webhook", code |-> 200, ok |-> TRUE,
                auto |-> IF Truthy(text) THEN "written" ELSE "skipped",
                sig |-> sig]
    /\ UNCHANGED transcripts
    /\ IF Truthy(text)
       THEN LET analysis == analyze_interview_transcript(ao)
                feedback_doc == _build_ai_feedback_payload(iv, uid, analysis, "ai_auto")
            IN  /\ Cardinality(feedback) < MaxFeedback
                /\ feedback' = feedback \cup {feedback_doc}
                /\ interviews' =
                      [base EXCEPT ![iv].overallScore = feedback_doc.overallScore]
       ELSE interviews' = base /\ UNCHANGED feedback

\* a webhook without its outer except: what it cannot read ends in a 500
vapi_webhook_return_raises(e) ==
    /\ resp' = [op |-> "vapi_webhook", code |-> 500, auto |-> "none", sig |-> e.sig]
    /\ StoreUnchanged

\* the webhook when it returns without synthesis
vapi_webhook_return(e) ==
    IF e.kind = "malformed" \/ WebhookRejects(e)
    THEN /\ resp' = [op |-> "vapi_webhook", code |-> 200, ok |-> FALSE,
                     auto |-> "none", sig |-> e.sig]
         /\ StoreUnchanged
    ELSE IF WebhookTargets(e) = {}
    THEN \* a reference to a document that is not stored: reading its data raises
         /\ resp' = [op |-> "vapi_webhook", code |-> 200,
                     ok |-> ~(e.interviewId # None /\ e.call_id # None),
                     auto |-> "none", sig |-> e.sig]
         /\ StoreUnchanged
    ELSE \E iv \in WebhookTargets(e) :
            /\ ~WebhookSynthesizes(iv, e)
            /\ interviews' = Update(iv, WebhookPayload(iv, e))
            /\ resp' = [op |-> "vapi_webhook", code |-> 200, ok |-> TRUE,
                        auto |-> "none", sig |-> e.sig]
            /\ UNCHANGED <<transcripts, feedback>>

WebhookApplies(e) ==
    e.kind = "event" /\ ~WebhookRejects(e) /\ WebhookTargets(e) # {}

\* the whole handler, with no other request in between
vapi_webhook(e, fo, to, ao) ==
    /\ UNCHANGED <<env, inflight, sessions>>
    /\ \/ vapi_webhook_return(e)
       \/ /\ WebhookApplies(e)
          /\ \E iv \in WebhookTargets(e) :
                /\ WebhookSynthesizes(iv, e)
                /\ vapi_webhook_finish(
                      Update(iv, WebhookPayload(iv, e)), iv, Doc(iv).userId,
                      IF Truthy(StoredTranscript(iv)) THEN StoredTranscript(iv)
                      ELSE WebhookFetched(WebhookTurl(iv, e), e.call_id, fo, to),
                      ao, e.sig)

\* the whole handler while every write to the store raises: the update of the
\* interview is caught and logged, synthesis goes on from update_payload and
\* its write of the artifact is caught by "Auto feedback generation failed"
vapi_webhook_store_fails(e, fo, to) ==
    /\ UNCHANGED <<env, inflight, sessions>>
    /\ StoreUnchanged
    /\ IF ~WebhookApplies(e)
       THEN resp' = [op |-> "vapi_webhook", code |-> 200,
                     ok |-> /\ e.kind # "malformed"
                            /\ ~WebhookRejects(e)
                            /\ ~(e.interviewId # None /\ e.call_id # None),
                     auto |-> "none", sig |-> e.sig]
       ELSE \E iv \in WebhookTargets(e) :
               resp' = [op |-> "vapi_webhook", code |-> 200, ok |-> TRUE,
                        auto |-> IF ~WebhookSynthesizes(iv, e) THEN "none"
                                 ELSE IF Truthy(
                                    IF Truthy(StoredTranscript(iv))
                                    THEN StoredTranscript(iv)
                                    ELSE WebhookFetched(WebhookTurl(iv, e),
                                                        e.call_id, fo, to))
                                 THEN "failed" ELSE "skipped",
                        sig |-> e.sig]

\* the handler up to its first await after the existing-artifact check
vapi_webhook_begin(e, ao) ==
    /\ UNCHANGED <<env, sessions>>
    /\ \/ vapi_webhook_return(e) /\ UNCHANGED inflight
       \/ /\ WebhookApplies(e)
          /\ \E iv \in WebhookTargets(e) :
                /\ WebhookSynthesizes(iv, e)
                /\ IF ~WebhookNeedsFetch(iv, e)
                   THEN /\ vapi_webhook_finish(
                              Update(iv, WebhookPayload(iv, e)), iv, Doc(iv).userId,
                              StoredTranscript(iv), ao, e.sig)
                        /\ UNCHANGED inflight
                   ELSE /\ BagCardinality(inflight) < MaxInflight
                        /\ interviews' = Update(iv, WebhookPayload(iv, e))
                        /\ inflight' = inflight (+) SetToBag(
                              {[handler |-> "vapi_webhook", iv |-> iv,
                                uid |-> Doc(iv).userId,
                                turl |-> WebhookTurl(iv, e), call_id |-> e.call_id,
                                sig |-> e.sig]})
                        /\ UNCHANGED <<transcripts, feedback, resp>>

\* the handler resumed with the answers of the download and the provider
vapi_webhook_resume(l, fo, to, ao) ==
    /\ BagIn(l, inflight)
    /\ l.handler = "vapi_webhook"
    /\ vapi_webhook_finish(interviews, l.iv, l.uid,
                           WebhookFetched(l.turl, l.call_id, fo, to), ao, l.sig)
    /\ inflight' = inflight (-) SetToBag({l})
    /\ UNCHANGED <<env, sessions>>

(***************************************************************************)
(* The dialogue engine: vapi_workflows.InterviewSetupAssistant.  A session *)
(* holds its phase, the three preferences, the question list, the index of *)
(* the current question and the answers and feedback given so far.  A      *)
(* question is kept as its id and where its text came from.                *)
(***************************************************************************)
\* what the provider answers when asked for questions: a JSON list of n items,
\* each with its three keys or not, text that is not JSON, or an exception
QuestionListLengths == {0, 3, 5, 6}

QuestionOutcomes ==
    [kind : {"json_list"}, n : QuestionListLengths, keys : {TRUE}]
        \cup {[kind |-> "json_list", n |-> 5, keys |-> FALSE]}
        \cup [kind : {"non_json", "raises"}]

\* what the provider answers when asked for feedback on an answer
FeedbackTextOutcomes == [kind : {"text", "raises"}]

create_session ==
    [phase |-> "GREETING", job_role |-> None, interview_type |-> None,
     experience_level |-> None, questions |-> <<>>, current_question_index |-> 0,
     answers |-> <<>>, feedback |-> <<>>]

_get_fallback_questions == [i \in 1..5 |-> [id |-> i, question |-> "fallback"]]

\* one question per item of the provider's list, however many there are; an
\* item without its keys, other text and an exception give the fallback set
generate_interview_questions(o) ==
    IF ~env.workflow_model THEN _get_fallback_questions
    ELSE IF o.kind = "json_list" /\ o.keys
    THEN [i \in 1..o.n |-> [id |-> i, question |-> "generated"]]
    ELSE _get_fallback_questions

\* _generate_feedback: the provider's text or the fixed sentence
_generate_feedback(o) ==
    IF env.workflow_model /\ o.kind = "text" THEN "generated" ELSE "fallback"

\* the branches INTERVIEW_STARTING (first = TRUE) and ASKING_QUESTION of
\* _handle_phase_logic: the answer is kept, then the current question is read,
\* which raises IndexError when the index is past the list
AnswerQuestion(session, user_input, fo, first) ==
    LET answered == [session EXCEPT
                        !.answers = Append(@, user_input),
                        !.phase = IF first THEN "PROVIDING_FEEDBACK" ELSE @]
        fed == [answered EXCEPT
                        !.feedback = Append(@, _generate_feedback(fo)),
                        !.current_question_index = @ + 1]
    IN  IF session.current_question_index >= Len(session.questions)
        THEN [session |-> answered, raised |-> TRUE]
        ELSE IF fed.current_question_index < Len(fed.questions)
        THEN [session |-> [fed EXCEPT !.phase = "ASKING_QUESTION"], raised |-> FALSE]
        ELSE [session |-> [fed EXCEPT !.phase = "INTERVIEW_COMPLETE"],
              raised |-> FALSE]

\* a dialogue whose last branch keeps the input as one more answer
_handle_phase_logic_keeps_answer(session, user_input, qo, fo) ==
    CASE session.phase = "GREETING" ->
            [session |-> [session EXCEPT !.phase = "COLLECTING_JOB_ROLE"],
             raised |-> FALSE]
      [] session.phase = "COLLECTING_JOB_ROLE" ->
            [session |-> [session EXCEPT !.job_role = Strip(user_input),
                                         !.phase = "COLLECTING_INTERVIEW_TYPE"],
             raised |-> FALSE]
      [] session.phase = "COLLECTING_INTERVIEW_TYPE" ->
            [session |-> [session EXCEPT !.interview_type = Strip(user_input),
                                         !.phase = "COLLECTING_EXPERIENCE_LEVEL"],
             raised |-> FALSE]
      [] session.phase = "COLLECTING_EXPERIENCE_LEVEL" ->
            \* the reply quotes questions[0], which raises on an empty list
            [session |-> [session EXCEPT !.experience_level = Strip(user_input),
                                         !.questions = generate_interview_questions(qo),
                                         !.phase = "INTERVIEW_STARTING"],
             raised |-> generate_interview_questions(qo) = <<>>]
      [] session.phase = "INTERVIEW_STARTING" ->
            AnswerQuestion(session, user_input, fo, TRUE)
      [] session.phase = "ASKING_QUESTION" ->
            AnswerQuestion(session, user_input, fo, FALSE)
      [] OTHER -> [session |-> [session EXCEPT !.answers = Append(@, user_input)],
                   raised |-> FALSE]

\* _handle_phase_logic: the session it leaves behind, and whether it raised
_handle_phase_logic(session, user_input, qo, fo) ==
    CASE session.phase = "GREETING" ->
            [session |-> [session EXCEPT !.phase = "COLLECTING_JOB_ROLE"],
             raised |-> FALSE]
      [] session.phase = "COLLECTING_JOB_ROLE" ->
            [session |-> [session EXCEPT !.job_role = Strip(user_input),
                                         !.phase = "COLLECTING_INTERVIEW_TYPE"],
             raised |-> FALSE]
      [] session.phase = "COLLECTING_INTERVIEW_TYPE" ->
            [session |-> [session EXCEPT !.interview_type = Strip(user_input),
                                         !.phase = "COLLECTING_EXPERIENCE_LEVEL"],
             raised |-> FALSE]
      [] session.phase = "COLLECTING_EXPERIENCE_LEVEL" ->
            \* the reply quotes questions[0], which raises on an empty list
            [session |-> [session EXCEPT !.experience_level = Strip(user_input),
                                         !.questions = generate_interview_questions(qo),
                                         !.phase = "INTERVIEW_STARTING"],
             raised |-> generate_interview_questions(qo) = <<>>]
      [] session.phase = "INTERVIEW_STARTING" ->
            AnswerQuestion(session, user_input, fo, TRUE)
      [] session.phase = "ASKING_QUESTION" ->
            AnswerQuestion(session, user_input, fo, FALSE)
      [] OTHER -> [session |-> session, raised |-> FALSE]

\* the inputs the session named by resp has been given so far
Turns == IF "turn" \in DOMAIN resp THEN resp.turn ELSE 0

\* process_user_input: the session is created on its first input
process_user_input(session_id, user_input, qo, fo) ==
    LET session == IF session_id \in DOMAIN sessions THEN sessions[session_id]
                   ELSE create_session
        result == _handle_phase_logic(session, user_input, qo, fo)
    IN  /\ Turns < MaxTurns
        /\ sessions' = [i \in DOMAIN sessions \cup {session_id} |->
                            IF i = session_id THEN result.session ELSE sessions[i]]
        /\ resp' = [op |-> "process_user_input", code |-> 0,
                    raised |-> result.raised, turn |-> Turns + 1]
        /\ UNCHANGED <<interviews, transcripts, feedback, env, inflight>>

\* a summary that opens a session for an id it does not know
get_session_summary_default(session_id) ==
    LET session == IF session_id \in DOMAIN sessions THEN sessions[session_id]
                   ELSE create_session
    IN  [session_id |-> session_id,
         preferences |-> [job_role |-> session.job_role,
                          interview_type |-> session.interview_type,
                          experience_level |-> session.experience_level],
         questions |-> session.questions,
         answers |-> session.answers,
         feedback |-> session.feedback,
         phase |-> session.phase,
         completed |-> session.phase = "INTERVIEW_COMPLETE"]

\* get_session_summary: the error object, or the summary of the stored session
get_session_summary(session_id) ==
    IF session_id \notin DOMAIN sessions
    THEN [error |-> "Session not found"]
    ELSE LET session == sessions[session_id] IN
         [session_id |-> session_id,
          preferences |-> [job_role |-> session.job_role,
                           interview_type |-> session.interview_type,
                           experience_level |-> session.experience_level],
          questions |-> session.questions,
          answers |-> session.answers,
          feedback |-> session.feedback,
          phase |-> session.phase,
          completed |-> session.phase = "INTERVIEW_COMPLETE"]

\* GET /workflow/{session_id}/summary
workflow_summary(session_id) ==
    LET summary == get_session_summary(session_id) IN
    /\ resp' = IF "error" \in DOMAIN summary
               THEN [op |-> "workflow_summary", code |-> 404,
                     session_id |-> session_id, turn |-> Turns]
               ELSE [op |-> "workflow_summary", code |-> 200,
                     session_id |-> session_id, turn |-> Turns, body |-> summary]
    /\ UNCHANGED <<interviews, transcripts, feedback, env, inflight, sessions>>

(***************************************************************************)
(* Specifications.  An outcome is drawn for a request only where the       *)
(* handler makes the request.                                              *)
(***************************************************************************)
ValidCreateStatuses == {"pending", "completed", "scheduled", "cancelled"}

Creators == {"u1"}

NoCall == [kind |-> "http_error"]
NoStatus == [kind |-> "http_error"]
NoTranscript == [kind |-> "not_found"]
NoAnalysis == [kind |-> "raises"]
NoFetch == [kind |-> "raises"]
NoStop == [client |-> FALSE, outs |-> Uniform("raises")]

Owned(iv, uid) == AccessCode(iv, uid) = 200

HasRealCall(iv) == Doc(iv).vapiCallId \in RealCallIds

CallOutcomesIf(made) == IF made THEN CallOutcomesHere ELSE {NoCall}

StatusOutcomesIf(made) ==
    IF made /\ env.vapi_is_configured THEN StatusOutcomes ELSE {NoStatus}

\* who asks, and for which interview
Anyone == RequestIds \X Users
OwnerOnly == InterviewIds \X Creators

CreateInterview == \E uid \in Creators, st \in ValidCreateStatuses : create_interview(uid, st)

CreateAiGuided ==
    \E uid \in Creators, phone \in BOOLEAN :
        \E o \in CallOutcomesIf(env.vapi_is_configured) :
            create_ai_guided_interview(uid, phone, o)

WorkflowFinalize ==
    \E uid \in Creators, known \in BOOLEAN, autoStart \in BOOLEAN :
        \E o \in CallOutcomesIf(known /\ autoStart) :
            workflow_finalize(uid, known, autoStart, o)

StartAi(who) ==
    \E r \in who, phone \in BOOLEAN :
        \E o \in CallOutcomesIf(Owned(r[1], r[2]) /\ phone) :
            start_ai_interview(r[1], r[2], phone, o)

PollStatus(who) ==
    \E r \in who :
        \E o \in StatusOutcomesIf(Owned(r[1], r[2]) /\ Doc(r[1]).aiSessionId # None
                                    /\ HasRealCall(r[1])) :
            get_ai_interview_status(r[1], r[2], o)

CompleteAi(who, status_outcomes, transcript_outcomes) ==
    \E r \in who :
        \E so \in IF Owned(r[1], r[2]) /\ HasRealCall(r[1])
                  THEN status_outcomes ELSE {NoStatus},
           to \in IF Owned(r[1], r[2]) /\ HasRealCall(r[1])
                  THEN transcript_outcomes ELSE {NoTranscript} :
            complete_ai_interview(r[1], r[2], so, to)

GetTranscript(who, transcript_outcomes) ==
    \E r \in who :
        \E to \in IF Owned(r[1], r[2]) /\ r[1] \notin DOMAIN transcripts
                        /\ HasRealCall(r[1])
                  THEN transcript_outcomes ELSE {NoTranscript} :
            get_interview_transcript(r[1], r[2], to)

GetAiFeedback(who, transcript_outcomes, analysis_outcomes) ==
    \E r \in who, force \in BOOLEAN :
        \E to \in IF get_ai_feedback_early(r[1], r[2], force) = 0
                        /\ FeedbackNeedsFetch(r[1]) /\ HasRealCall(r[1])
                  THEN transcript_outcomes ELSE {NoTranscript},
           ao \in IF get_ai_feedback_early(r[1], r[2], force) = 0
                  THEN analysis_outcomes ELSE {NoAnalysis} :
            get_ai_feedback(r[1], r[2], force, to, ao)

UpdateCallId(who, call_ids) ==
    \E r \in who, c \in call_ids : update_vapi_call_id(r[1], r[2], c)

StopAi(who, stop_outcomes) ==
    \E r \in who :
        \E o \in IF Owned(r[1], r[2]) /\ Doc(r[1]).vapiCallId # None
                 THEN stop_outcomes ELSE {NoStop} :
            stop_ai_interview(r[1], r[2], o)

CreateFeedback(who) ==
    \E r \in who, sc \in ManualScores : create_feedback(r[1], r[2], sc)

WebhookMaySynthesize(e) ==
    WebhookApplies(e) /\ \E iv \in WebhookTargets(e) : WebhookSynthesizes(iv, e)

WebhookMayFetch(e) ==
    WebhookApplies(e) /\ \E iv \in WebhookTargets(e) :
        WebhookSynthesizes(iv, e) /\ WebhookNeedsFetch(iv, e)

Webhook(events, fetch_outcomes, transcript_outcomes, analysis_outcomes) ==
    \E e \in events :
        \E fo \in IF WebhookMayFetch(e) THEN fetch_outcomes ELSE {NoFetch},
           to \in IF WebhookMayFetch(e) THEN transcript_outcomes ELSE {NoTranscript},
           ao \in IF WebhookMaySynthesize(e) THEN analysis_outcomes ELSE {NoAnalysis} :
            vapi_webhook(e, fo, to, ao)

\* a provider that was given no secret sends no signature
UnsignedEvents == {e \in WebhookEvents : e.kind = "event" => e.sig = "absent"}

(***************************************************************************)
(* The interview lifecycle under the default configuration: every way an   *)
(* interview is created, started, polled, completed, stopped and reported  *)
(* on by the provider, by its owner, by another user and for an unknown id.*)
(***************************************************************************)
Next ==
    \/ CreateInterview
    \/ CreateAiGuided
    \/ WorkflowFinalize
    \/ StartAi(Anyone)
    \/ PollStatus(Anyone)
    \/ CompleteAi(Anyone, StatusOutcomes, TranscriptOutcomes)
    \/ UpdateCallId(Anyone, RealCallIds)
    \/ StopAi(Anyone, StopOutcomes)
    \/ Webhook(UnsignedEvents, FetchOutcomes, TranscriptOutcomes, AnalysisOutcomes)

Spec == Init /\ [][Next]_vars

(***************************************************************************)
(* Feedback: an owner's interview with one placed call, automatic          *)
(* synthesis switched on or off, each handler running from request to      *)
(* response.                                                               *)
(***************************************************************************)
InitFeedback ==
    /\ EmptyStore
    /\ env \in {[DefaultEnv EXCEPT !.AUTO_GENERATE_AI_FEEDBACK = b] : b \in BOOLEAN}

FeedbackCallIds == {"c1"}

FeedbackEvents ==
    {e \in UnsignedEvents :
        e.kind = "event" =>
            /\ e.call_id \in FeedbackCallIds \cup {None}
            /\ e.interviewId \in InterviewIds \cup {None}
            /\ e.status \in {R_ended, R_call_failed, R_none}}

FeedbackStatusOutcomes ==
    {o \in StatusOutcomes : o.kind = "ok" => o.status = R_ended}

FeedbackTranscriptOutcomes ==
    {o \in TranscriptOutcomes : o.kind = "ok" => o.text \in {T_a, T_empty}}

FeedbackFetchOutcomes ==
    {o \in FetchOutcomes : o.kind = "ok" => o.text \in {T_a, T_blank}}

FeedbackAnalysisOutcomes ==
    {o \in AnalysisOutcomes : o.kind = "json" => o.hasScore /\ o.overallScore = 150}

NextFeedback ==
    \/ CreateInterview
    \/ CompleteAi(OwnerOnly, FeedbackStatusOutcomes, FeedbackTranscriptOutcomes)
    \/ GetTranscript(OwnerOnly, FeedbackTranscriptOutcomes)
    \/ GetAiFeedback(OwnerOnly, FeedbackTranscriptOutcomes, FeedbackAnalysisOutcomes)
    \/ UpdateCallId(OwnerOnly, FeedbackCallIds)
    \/ StopAi(OwnerOnly, {NoStop})
    \/ CreateFeedback(OwnerOnly)
    \/ Webhook(FeedbackEvents, FeedbackFetchOutcomes, FeedbackTranscriptOutcomes,
               FeedbackAnalysisOutcomes)

SpecFeedback == InitFeedback /\ [][NextFeedback]_vars

(***************************************************************************)
(* Feedback with requests served concurrently: a handler that awaits the   *)
(* transcript is suspended there and other handlers run meanwhile.         *)
(***************************************************************************)
GetAiFeedbackBegin(who, analysis_outcomes) ==
    \E r \in who, force \in BOOLEAN :
        \E ao \in IF get_ai_feedback_early(r[1], r[2], force) = 0
                        /\ ~FeedbackNeedsFetch(r[1])
                  THEN analysis_outcomes ELSE {NoAnalysis} :
            get_ai_feedback_begin(r[1], r[2], force, ao)

GetAiFeedbackResume(transcript_outcomes, analysis_outcomes) ==
    \E l \in BagToSet(inflight) :
        \E to \in transcript_outcomes, ao \in analysis_outcomes :
            get_ai_feedback_resume(l, to, ao)

WebhookBegin(events, analysis_outcomes) ==
    \E e \in events :
        \E ao \in IF WebhookMaySynthesize(e) /\ ~WebhookMayFetch(e)
                  THEN analysis_outcomes ELSE {NoAnalysis} :
            vapi_webhook_begin(e, ao)

WebhookResume(fetch_outcomes, transcript_outcomes, analysis_outcomes) ==
    \E l \in BagToSet(inflight) :
        \E fo \in fetch_outcomes, to \in transcript_outcomes, ao \in analysis_outcomes :
            vapi_webhook_resume(l, fo, to, ao)

ConcEvents == {e \in FeedbackEvents : e.kind = "event" /\ e.status = R_ended}

ConcAnalysisOutcomes == {o \in FeedbackAnalysisOutcomes : o.kind = "json"}

ConcFetchOutcomes == {o \in FeedbackFetchOutcomes : o.kind = "ok" => o.text = T_a}

NextConc ==
    \/ CreateInterview
    \/ UpdateCallId(OwnerOnly, FeedbackCallIds)
    \/ GetAiFeedbackBegin(OwnerOnly, ConcAnalysisOutcomes)
    \/ GetAiFeedbackResume(FeedbackTranscriptOutcomes, ConcAnalysisOutcomes)
    \/ WebhookBegin(ConcEvents, ConcAnalysisOutcomes)
    \/ WebhookResume(ConcFetchOutcomes, FeedbackTranscriptOutcomes,
                     ConcAnalysisOutcomes)

SpecConc == InitFeedback /\ [][NextConc]_vars

(***************************************************************************)
(* Transcripts with requests served concurrently: mark-complete and        *)
(* transcript retrieval are suspended while they await the provider, and   *)
(* the provider's transcript of a call may differ from one request to the  *)
(* next.                                                                   *)
(***************************************************************************)
CompleteAiBegin(who) == \E r \in who : complete_ai_interview_begin(r[1], r[2])

CompleteAiResume(status_outcomes, transcript_outcomes) ==
    \E l \in BagToSet(inflight) :
        \E so \in status_outcomes, to \in transcript_outcomes :
            complete_ai_interview_resume(l, so, to)

GetTranscriptBegin(who) == \E r \in who : get_interview_transcript_begin(r[1], r[2])

GetTranscriptResume(transcript_outcomes) ==
    \E l \in BagToSet(inflight) :
        \E to \in transcript_outcomes : get_interview_transcript_resume(l, to)

NextTranscript ==
    \/ CreateInterview
    \/ UpdateCallId(OwnerOnly, FeedbackCallIds)
    \/ CompleteAiBegin(OwnerOnly)
    \/ CompleteAiResume(FeedbackStatusOutcomes, TranscriptOutcomes)
    \/ GetTranscriptBegin(OwnerOnly)
    \/ GetTranscriptResume(TranscriptOutcomes)

SpecTranscript == Init /\ [][NextTranscript]_vars

(***************************************************************************)
(* One dialogue: a session given up to MaxTurns inputs, the first of them  *)
(* empty, with the assistant's model available or not and every answer the *)
(* provider can give when asked for questions and for feedback.            *)
(***************************************************************************)
InitDialogue ==
    /\ EmptyStore
    /\ env \in {[DefaultEnv EXCEPT !.workflow_model = b] : b \in BOOLEAN}

SessionIds == {"s1"}

T_padded == <<" ", "a">>
UserInputs == {T_empty, T_padded}

SessionPhase(sid) == IF sid \in DOMAIN sessions THEN sessions[sid].phase ELSE "GREETING"

ProcessUserInput ==
    \E sid \in SessionIds :
        \E user_input \in IF sid \in DOMAIN sessions THEN UserInputs ELSE {T_empty},
           qo \in IF env.workflow_model /\ SessionPhase(sid) = "COLLECTING_EXPERIENCE_LEVEL"
                  THEN QuestionOutcomes ELSE {[kind |-> "raises"]},
           fo \in IF env.workflow_model
                        /\ SessionPhase(sid) \in {"INTERVIEW_STARTING", "ASKING_QUESTION"}
                  THEN FeedbackTextOutcomes ELSE {[kind |-> "raises"]} :
            process_user_input(sid, user_input, qo, fo)

NextDialogue == ProcessUserInput

SpecDialogue == InitDialogue /\ [][NextDialogue]_vars

(***************************************************************************)
(* The dialogue with its summary read at any point, for the session in     *)
(* progress and for an id no input was ever sent under.                    *)
(***************************************************************************)
SummaryIds == SessionIds \cup {"sX"}

WorkflowSummary == \E sid \in SummaryIds : workflow_summary(sid)

NextSummary ==
    \/ ProcessUserInput
    \/ WorkflowSummary

SpecSummary == Init /\ [][NextSummary]_vars

(***************************************************************************)
(* The webhook on its own: events with and without a signature header,     *)
(* with the shared secret configured or not, bodies that cannot be read,   *)
(* metadata naming an interview that is not stored, the store refusing     *)
(* writes, and the transcript and analysis providers failing.              *)
(***************************************************************************)
InitWebhook ==
    /\ EmptyStore
    /\ env \in {[DefaultEnv EXCEPT !.AUTO_GENERATE_AI_FEEDBACK = b,
                                   !.VAPI_WEBHOOK_SECRET = k] : b, k \in BOOLEAN}

SignedEvents ==
    {e \in WebhookEvents :
        e.kind = "event" =>
            /\ e.call_id \in FeedbackCallIds \cup {None}
            /\ e.status \in {R_ended, R_call_failed, R_none}}

WebhookStoreFails(events, fetch_outcomes, transcript_outcomes) ==
    \E e \in events :
        \E fo \in IF WebhookMayFetch(e) THEN fetch_outcomes ELSE {NoFetch},
           to \in IF WebhookMayFetch(e) THEN transcript_outcomes ELSE {NoTranscript} :
            vapi_webhook_store_fails(e, fo, to)

NextWebhook ==
    \/ CreateInterview
    \/ UpdateCallId(OwnerOnly, FeedbackCallIds)
    \/ Webhook(SignedEvents, FeedbackFetchOutcomes, FeedbackTranscriptOutcomes,
               FeedbackAnalysisOutcomes)
    \/ WebhookStoreFails(SignedEvents, FeedbackFetchOutcomes,
                         FeedbackTranscriptOutcomes)

SpecWebhook == InitWebhook /\ [][NextWebhook]_vars

(***************************************************************************)
(* Access: the owner creates interviews and the provider reports on them,  *)
(* while every interview-scoped operation is invoked by a caller who does  *)
(* not own the interview it names, or names an id that is not stored.  The *)
(* providers are ready to answer each request in every way they can, so    *)
(* that a handler that asked one before its owner check would show it.     *)
(***************************************************************************)
Strangers == {r \in Anyone : r[2] \notin Creators \/ r[1] \notin InterviewIds}

InterviewScopedOps ==
    {"start_ai_interview", "get_ai_interview_status", "complete_ai_interview",
     "get_interview_transcript", "get_ai_feedback", "update_vapi_call_id",
     "stop_ai_interview", "create_feedback"}

StrangerStartAi ==
    \E r \in Strangers, phone \in BOOLEAN, o \in CallOutcomesHere :
        start_ai_interview(r[1], r[2], phone, o)

StrangerPollStatus ==
    \E r \in Strangers, o \in FeedbackStatusOutcomes :
        get_ai_interview_status(r[1], r[2], o)

StrangerCompleteAi ==
    \E r \in Strangers, so \in FeedbackStatusOutcomes,
       to \in FeedbackTranscriptOutcomes :
        complete_ai_interview(r[1], r[2], so, to)

StrangerGetTranscript ==
    \E r \in Strangers, to \in FeedbackTranscriptOutcomes :
        get_interview_transcript(r[1], r[2], to)

StrangerGetAiFeedback ==
    \E r \in Strangers, force \in BOOLEAN, to \in FeedbackTranscriptOutcomes,
       ao \in FeedbackAnalysisOutcomes :
        get_ai_feedback(r[1], r[2], force, to, ao)

StrangerUpdateCallId ==
    \E r \in Strangers, c \in RealCallIds : update_vapi_call_id(r[1], r[2], c)

StrangerStopAi ==
    \E r \in Strangers, o \in StopOutcomes : stop_ai_interview(r[1], r[2], o)

NextAccess ==
    \/ CreateInterview
    \/ Webhook(FeedbackEvents, FeedbackFetchOutcomes, FeedbackTranscriptOutcomes,
               FeedbackAnalysisOutcomes)
    \/ StrangerStartAi
    \/ StrangerPollStatus
    \/ StrangerCompleteAi
    \/ StrangerGetTranscript
    \/ StrangerGetAiFeedback
    \/ StrangerUpdateCallId
    \/ StrangerStopAi
    \/ CreateFeedback(Strangers)

SpecAccess == InitFeedback /\ [][NextAccess]_vars

(***************************************************************************)
(* Analysis: an owner's interview with one placed call, the analysis       *)
(* provider configured or not, and every answer it can give: scores and    *)
(* confidences below, inside and above their ranges, missing or not a      *)
(* number, each recommendation token, key insights of the wrong JSON type. *)
(***************************************************************************)
InitAnalysis ==
    /\ EmptyStore
    /\ env \in {[DefaultEnv EXCEPT !.AUTO_GENERATE_AI_FEEDBACK = b,
                                   !.gemini_is_configured = g] : b, g \in BOOLEAN}

AnalysisScores == {-5, 0, 88, 150}
AnalysisConfidences == {-20, 0, 90, 150}
AnalysisTokens ==
    {K_hire, K_strong_hire, K_conditional_hire, K_no_hire, K_reject, K_maybe}

AnalysisAnswers ==
    {[JsonAnswer EXCEPT !.overallScore = s, !.confidenceLevel = c] :
        s \in AnalysisScores, c \in AnalysisConfidences}
        \cup {[JsonAnswer EXCEPT !.hasScore = FALSE, !.hasConfidence = FALSE],
              [JsonAnswer EXCEPT !.scoreIsNumber = FALSE]}
        \cup {[JsonAnswer EXCEPT !.hiringRecommendation = k, !.keyInsights = i] :
                k \in AnalysisTokens, i \in {"list", "text", "missing"}}
        \cup {[JsonAnswer EXCEPT !.hasToken = FALSE]}
        \cup [kind : {"non_json", "raises"}]

NextAnalysis ==
    \/ CreateInterview
    \/ UpdateCallId(OwnerOnly, FeedbackCallIds)
    \/ GetTranscript(OwnerOnly, FeedbackTranscriptOutcomes)
    \/ GetAiFeedback(OwnerOnly, FeedbackTranscriptOutcomes, AnalysisAnswers)
    \/ Webhook(ConcEvents, ConcFetchOutcomes, FeedbackTranscriptOutcomes,
               AnalysisAnswers)

SpecAnalysis == InitAnalysis /\ [][NextAnalysis]_vars

(***************************************************************************)
(* The recommendation mapping on its own: _map_ai_recommendation applied   *)
(* to an analysis dict whose token is one of the table's or not, in any    *)
(* casing, with or without surrounding whitespace, empty or missing, and   *)
(* whose narrative is a sentence, blank, empty or missing.  resp holds the *)
(* call: the token as the provider meant it, the dict, then the result.    *)
(***************************************************************************)
Casings(k) == {k, Upper(k), Capitalize(k)}

Paddings(k) == {k, <<" ">> \o k, k \o <<"\n">>, <<" ", "\t">> \o k \o <<" ">>}

\* an analysis dict with or without its two keys
AnalysisDict(hasToken, token, hasNarrative, narrative) ==
    [key \in (IF hasToken THEN {"hiringRecommendation"} ELSE {})
               \cup (IF hasNarrative THEN {"recommendation"} ELSE {}) |->
        IF key = "hiringRecommendation" THEN token ELSE narrative]

MapNarratives == {T_empty, T_blank, N_manual_review}

MapInputs ==
    UNION {{[token |-> k, analysis |-> AnalysisDict(TRUE, w, hn, n)] :
                w \in UNION {Paddings(c) : c \in Casings(k)},
                hn \in BOOLEAN, n \in MapNarratives} :
           k \in AnalysisTokens \cup {T_empty}}
      \cup {[token |-> T_empty, analysis |-> AnalysisDict(FALSE, T_empty, hn, n)] :
              hn \in BOOLEAN, n \in MapNarratives}

InitMap ==
    /\ interviews = <<>> /\ transcripts = <<>> /\ feedback = {}
    /\ inflight = EmptyBag /\ env = DefaultEnv /\ sessions = <<>>
    /\ resp \in {[op |-> "input", code |-> 0, token |-> i.token,
                  analysis |-> i.analysis] : i \in MapInputs}

MapRecommendation ==
    /\ resp.op = "input"
    /\ resp' = [op |-> "_map_ai_recommendation", code |-> 0, token |-> resp.token,
                analysis |-> resp.analysis,
                result |-> _map_ai_recommendation(resp.analysis)]
    /\ UNCHANGED <<interviews, transcripts, feedback, env, inflight, sessions>>

NextMap == MapRecommendation

SpecMap == InitMap /\ [][NextMap]_vars

(***************************************************************************)
(* Status reconciliation: one interview with a placed call, in each status *)
(* it can have by then, and one raw status string of the provider, given   *)
(* to the webhook or answered to the status poll.                          *)
(***************************************************************************)
R_Ended ==
    <<"E","n","d","e","d">>
R_FAILED ==
    <<"F","A","I","L","E","D">>
R_Call_Failed ==
    <<"C","a","l","l","-","F","a","i","l","e","d">>
R_failed_ended ==
    <<"f","a","i","l","e","d","-","t","h","e","n","-","E","N","D","E","D">>
R_call_ended ==
    <<"c","a","l","l","-","e","n","d","e","d">>
R_not_completed ==
    <<"n","o","t","-","C","o","m","p","l","e","t","e","d">>
R_fail ==
    <<"f","a","i","l">>
R_end ==
    <<"e","n","d">>
R_complete ==
    <<"c","o","m","p","l","e","t","e">>
R_ringing ==
    <<"r","i","n","g","i","n","g">>

StatusInputs ==
    RawStatuses \cup {R_none, R_Ended, R_FAILED, R_Call_Failed, R_failed_ended, R_call_ended,
                      R_not_completed, R_fail, R_end, R_complete, R_ringing}

StartedStatuses == {"inProgress", "completed", "failed", "cancelled"}

InitStatus ==
    /\ interviews \in
          {[iv \in {"iv1"} |-> [NewInterview("u1", st, "c1") EXCEPT !.aiSessionId = "set"]] :
              st \in StartedStatuses}
    /\ transcripts = <<>> /\ feedback = {}
    /\ inflight = EmptyBag /\ env = DefaultEnv /\ sessions = <<>>
    /\ resp \in {[op |-> "input", code |-> 0, raw |-> r, transcriptUrl |-> t] :
                    r \in StatusInputs, t \in {None, TranscriptUrl}}

\* the event that carries the raw status for the call of iv1
StatusEvent(raw, transcript_url) ==
    [kind |-> "event", call_id |-> "c1", status |-> raw,
     transcriptUrl |-> transcript_url, interviewId |-> None, sig |-> "absent"]

\* the provider's answer to the poll with the raw status
StatusAnswer(raw, transcript_url) ==
    [kind |-> "ok", status |-> raw, transcriptUrl |-> transcript_url]

WebhookStatus ==
    /\ resp.op = "input"
    /\ vapi_webhook(StatusEvent(resp.raw, resp.transcriptUrl), NoFetch, NoTranscript, NoAnalysis)

PollStatusInput ==
    /\ resp.op = "input"
    /\ get_ai_interview_status("iv1", "u1", StatusAnswer(resp.raw, resp.transcriptUrl))

NextStatus ==
    \/ WebhookStatus
    \/ PollStatusInput

SpecStatus == InitStatus /\ [][NextStatus]_vars

(***************************************************************************)
(* Call artifacts: one interview with a placed call, and webhook events,   *)
(* status polls and mark-complete calls whose signal carries a duration, a *)
(* transcript locator and a recording locator, or leaves any of them out.  *)
(***************************************************************************)
Durations == {"125"}
RecordingUrl == "https://r"

InitArtifacts ==
    /\ interviews =
          [iv \in {"iv1"} |->
              [NewInterview("u1", "inProgress", "c1") EXCEPT !.aiSessionId = "set"]]
    /\ transcripts = <<>> /\ feedback = {}
    /\ inflight = EmptyBag /\ env = DefaultEnv /\ sessions = <<>>
    /\ resp = [op |-> "none", code |-> 0]

ArtifactEvents ==
    [kind : {"event"}, call_id : {"c1"}, status : {R_none, R_ended},
     transcriptUrl : {None, TranscriptUrl}, interviewId : {None}, sig : {"absent"},
     duration : Durations \cup {None, "0"}, recordingUrl : {None, RecordingUrl}]

ArtifactAnswers ==
    [kind : {"ok"}, status : {R_in_progress, R_ended},
     transcriptUrl : {None, TranscriptUrl},
     duration : Durations \cup {None}, recordingUrl : {None, RecordingUrl}]
        \cup [kind : {"http_error", "timeout"}]

ArtifactWebhook ==
    \E e \in ArtifactEvents : vapi_webhook(e, NoFetch, NoTranscript, NoAnalysis)

ArtifactPoll ==
    \E o \in ArtifactAnswers : get_ai_interview_status("iv1", "u1", o)

ArtifactComplete ==
    \E so \in ArtifactAnswers, to \in FeedbackTranscriptOutcomes :
        complete_ai_interview("iv1", "u1", so, to)

NextArtifacts ==
    \/ ArtifactWebhook
    \/ ArtifactPoll
    \/ ArtifactComplete

SpecArtifacts == InitArtifacts /\ [][NextArtifacts]_vars

(***************************************************************************)
(* stop_call on its own: every way the provider can take the five request  *)
(* variants, each accepted, rejected or raising, and a client that cannot  *)
(* be built.                                                               *)
(***************************************************************************)
StopInputs ==
    [client : BOOLEAN, outs : [1..Len(StopVariants) -> AttemptOutcomes]]

InitStop ==
    /\ interviews = <<>> /\ transcripts = <<>> /\ feedback = {}
    /\ inflight = EmptyBag /\ env = DefaultEnv /\ sessions = <<>>
    /\ resp \in {[op |-> "input", code |-> 0, client |-> i.client, outs |-> i.outs] :
                    i \in StopInputs}

\* the labels of the variants stop_call has sent when it returns
StopCall ==
    /\ resp.op = "input"
    /\ LET result == stop_call([client |-> resp.client, outs |-> resp.outs])
       IN  resp' = [op |-> "stop_call", code |-> 0, client |-> resp.client,
                    outs |-> resp.outs, ok |-> result.ok,
                    sent |-> SubSeq(StopVariants, 1, result.sent)]
    /\ UNCHANGED <<interviews, transcripts, feedback, env, inflight, sessions>>

NextStop == StopCall

SpecStop == InitStop /\ [][NextStop]_vars

(***************************************************************************)
(* Properties.                                                             *)
(***************************************************************************)
\* C1: once the stored status is completed or failed, no webhook event,
\* status poll or mark-complete call changes it to a different value.
C1_TerminalStatusKept ==
    [][\A iv \in DOMAIN interviews :
          (Doc(iv).status \in TerminalStatuses /\ resp'.op \in {"vapi_webhook", "get_ai_interview_status",
                                   "complete_ai_interview"})
              => (interviews'[iv].status = Doc(iv).status)]_vars

\* C2: in every reachable state, also with requests suspended between the
\* existing-artifact check and the write, every interview has at most one
\* feedback document with an AI source.
C2_AtMostOneAiArtifact ==
    \A iv \in DOMAIN interviews : Cardinality(AiArtifacts(iv)) <= 1

C4_CompletionSynthesizes ==
    [][\A iv \in DOMAIN interviews :
          (/\ resp'.op \in {"vapi_webhook", "get_ai_interview_status",
                                   "complete_ai_interview"}
           /\ Doc(iv).status # "completed" /\ interviews'[iv].status = "completed"
           /\ iv \in DOMAIN transcripts')
          => (\E d \in feedback' :
                d.interviewId = iv /\ d.source \in AI_FEEDBACK_SOURCES)]_vars

\* C5: a stop request on an interview whose status is completed or failed
\* leaves the status as it is.
C5_StopKeepsTerminal ==
    [][\A iv \in DOMAIN interviews :
          (Doc(iv).status \in TerminalStatuses /\ resp'.op = "stop_ai_interview")
              => (interviews'[iv].status = Doc(iv).status)]_vars

\* C6: a stop request by the owner of a stored interview sets its status to
\* cancelled and answers 200, whichever stop variant the provider accepts,
\* if any, and whether the provider answers, raises or cannot be reached.
C6_StopAlwaysCancels ==
    [][\A r \in Anyone, o \in StopOutcomes :
          (Owned(r[1], r[2]) /\ stop_ai_interview(r[1], r[2], o))
              => (interviews'[r[1]].status = "cancelled" /\ resp'.code = 200)]_vars

C6_Witness ==
    /\ resp.op = "stop_ai_interview" /\ resp.code = 200
    /\ resp.remote = "not_stopped"
    /\ \E iv \in DOMAIN interviews : Doc(iv).status = "cancelled"

\* C7: when stop has just set the status to cancelled, a webhook event or a
\* status poll that follows leaves the status cancelled.
C7_CancelledKept ==
    [][\A iv \in DOMAIN interviews :
          (/\ resp.op = "stop_ai_interview" /\ resp.code = 200
           /\ Doc(iv).status = "cancelled"
           /\ resp'.op \in {"vapi_webhook", "get_ai_interview_status"})
          => (interviews'[iv].status = "cancelled")]_vars

\* C8: a stored call id is not replaced by a different one, neither by
\* update_vapi_call_id, nor by a repeated start, nor by a webhook event.
C8_CallIdWriteOnce ==
    [][\A iv \in DOMAIN interviews :
          (/\ Doc(iv).vapiCallId # None
           /\ resp'.op \in {"update_vapi_call_id", "start_ai_interview", "vapi_webhook"})
          => (interviews'[iv].vapiCallId = Doc(iv).vapiCallId)]_vars

\* C9: POST /interviews/ai-guided, and workflow finalize of a known session
\* with autoStart, store a new interview of the caller whatever the call
\* provider does: a call id, no call id, an error answer, a timeout or a
\* network failure.
C9_RecordPersisted ==
    [][\A uid \in Creators, o \in CallOutcomes :
          (\/ \E phone \in BOOLEAN : create_ai_guided_interview(uid, phone, o)
           \/ workflow_finalize(uid, TRUE, TRUE, o))
          => (\E iv \in DOMAIN interviews' \ DOMAIN interviews :
                interviews'[iv].userId = uid)]_vars

C9_Witness ==
    /\ resp.op = "create_ai_guided_interview" /\ resp.outcome = "timeout"
    /\ \E iv \in DOMAIN interviews : Doc(iv).status = "ai_guided_setup"

\* C10: synthesize on an interview that is not completed answers 400 and
\* stores nothing when force is false, and does not stop at the status when
\* force is true.
C10_ForceSkipsStatusCheck ==
    [][(resp'.op = "get_ai_feedback" /\ resp'.code = 400)
          => (~resp'.force /\ UNCHANGED <<interviews, transcripts, feedback>>)]_vars

\* the transcript text get_ai_feedback holds after the stored copy and the
\* provider request
FeedbackAcquired(iv, to) ==
    IF FeedbackNeedsFetch(iv) THEN OrEmpty(get_call_transcript(to))
    ELSE StoredTranscript(iv)

C12_SynthesisNeverFails ==
    [][resp'.op = "get_ai_feedback" =>
         \A r \in OwnerOnly, force \in BOOLEAN, to \in FeedbackTranscriptOutcomes,
            ao \in AnalysisAnswers :
             (/\ AccessCode(r[1], r[2]) = 200
              /\ Doc(r[1]).status = "completed"
              /\ Truthy(Strip(FeedbackAcquired(r[1], to)))
              /\ get_ai_feedback(r[1], r[2], force, to, ao))
             => /\ resp'.code = 200
                /\ ((~env.gemini_is_configured \/ ao.kind # "json")
                    => \A d \in feedback' \ feedback :
                          /\ <<d.overallScore, d.confidenceScore, d.recommendation>>
                                \in {<<78, 75, N_further_review>>,
                                     <<70, 50, N_manual_review>>}
                          /\ d.finalVerdict = "conditionallyRecommended")]_vars

\* C13: the overall score of every stored AI artifact lies in 1..100 and its
\* confidence in 0.0..1.0 (0..100 hundredths), for every score and confidence
\* of the provider and on every fallback path
C13_ScoresClamped ==
    \A d \in feedback :
        d.source \in AI_FEEDBACK_SOURCES =>
            d.overallScore \in 1..100 /\ d.confidenceScore \in 0..100

\* an artifact made from a score above 100 and a negative confidence
C13_Witness ==
    \E d \in feedback :
        /\ d.source \in AI_FEEDBACK_SOURCES
        /\ d.overallScore = 100 /\ d.confidenceScore = 0

\* the verdict the table gives a token
C14_TableVerdict(k) ==
    CASE k \in {K_hire, K_strong_hire} -> "recommended"
      [] k = K_conditional_hire -> "conditionallyRecommended"
      [] k \in {K_no_hire, K_reject} -> "notRecommended"
      [] OTHER -> "conditionallyRecommended"

\* C14: the recommendation mapping gives every token, in any casing, with
\* surrounding whitespace, missing or unknown, the verdict of the fixed table
\* and a narrative that is not empty
C14_MappingTotal ==
    resp.op = "_map_ai_recommendation" =>
        /\ resp.result.final_verdict = C14_TableVerdict(resp.token)
        /\ Truthy(Strip(resp.result.narrative))

\* strong_hire in another casing or with whitespace around it, mapped
C14_Witness ==
    /\ resp.op = "_map_ai_recommendation"
    /\ resp.token = K_strong_hire
    /\ resp.analysis.hiringRecommendation # K_strong_hire
    /\ "recommendation" \notin DOMAIN resp.analysis
    /\ resp.result.final_verdict = "recommended"

\* C15: the canonical recommendation stored on an AI artifact is the table
\* image of the token the analysis provider returned for that interview
C15_VerdictFollowsToken ==
    [][resp'.op = "get_ai_feedback" =>
         \A r \in OwnerOnly, force \in BOOLEAN, to \in FeedbackTranscriptOutcomes,
            ao \in AnalysisAnswers :
             (/\ env.gemini_is_configured
              /\ ao.kind = "json" /\ ao.hasToken /\ ao.scoreIsNumber
              /\ get_ai_feedback_early(r[1], r[2], force) = 0
              /\ get_ai_feedback(r[1], r[2], force, to, ao))
             => \A d \in feedback' \ feedback :
                   d.finalVerdict = C14_TableVerdict(ao.hiringRecommendation)]_vars


\* C16: while a transcript with non-empty text is stored for an interview,
\* mark-complete, transcript retrieval, synthesis and the webhook's automatic
\* synthesis take that text and make no download and no provider transcript
\* request
C16_CachedTranscriptUsed ==
    [][\A iv \in DOMAIN interviews :
          Truthy(Strip(StoredTranscript(iv))) =>
              /\ (resp'.op = "complete_ai_interview" /\ resp'.code = 200)
                    => (~resp'.transcriptRequest /\ transcripts' = transcripts)
              /\ (resp'.op = "get_interview_transcript" /\ resp'.code = 200)
                    => (resp'.source = "stored" /\ transcripts' = transcripts)
              /\ (resp'.op = "get_ai_feedback") => ~FeedbackNeedsFetch(iv)
              /\ (resp'.op = "vapi_webhook")
                    => \A e \in FeedbackEvents :
                          e.kind = "event" => ~WebhookNeedsFetch(iv, e)]_vars

\* C17: a handler that saw no stored transcript, fetched one and finds on its
\* return that another handler has stored one meanwhile leaves the stored text
\* as it is
C17_FirstTranscriptWins ==
    [][\A l \in BagToSet(inflight) :
          (/\ inflight' = inflight (-) SetToBag({l})
           /\ l.sawNone
           /\ l.iv \in DOMAIN transcripts)
          => (/\ l.iv \in DOMAIN transcripts'
              /\ transcripts'[l.iv].transcript = transcripts[l.iv].transcript)]_vars

\* C18: the text of a stored transcript that is not empty is never changed by
\* a later request or event, each handled from request to response
C18_TranscriptTextKept ==
    [][\A iv \in DOMAIN transcripts :
          Truthy(transcripts[iv].transcript) =>
              /\ iv \in DOMAIN transcripts'
              /\ transcripts'[iv].transcript = transcripts[iv].transcript]_vars

\* C19: a fresh session given nine inputs (an empty one, the role, the type,
\* the level and five answers) holds exactly 5 questions and 5 feedback strings
\* and is in phase INTERVIEW_COMPLETE, whatever the provider answered
C19_NineInputsComplete ==
    (resp.op = "process_user_input" /\ resp.turn = 9) =>
        \A sid \in DOMAIN sessions :
            /\ Len(sessions[sid].questions) = 5
            /\ Len(sessions[sid].feedback) = 5
            /\ sessions[sid].phase = "INTERVIEW_COMPLETE"

\* C20: a session in an asking phase holds exactly 5 questions, whatever the
\* provider returned
C20_FiveQuestionsWhenAsking ==
    \A sid \in DOMAIN sessions :
        sessions[sid].phase \in {"INTERVIEW_STARTING", "ASKING_QUESTION"} =>
            Len(sessions[sid].questions) = 5

\* C21: the webhook answers every event with an acknowledgement that holds a
\* boolean ok and never with a server error: a body it cannot read, an unknown
\* interview, metadata naming a missing interview, a store that refuses the
\* writes, a transcript or analysis provider that fails
C21_WebhookAlwaysAcknowledges ==
    [][resp'.op = "vapi_webhook" =>
          (resp'.code = 200 /\ resp'.ok \in BOOLEAN)]_vars

\* the write of the artifact was refused and the event is acknowledged
C21_Witness ==
    /\ resp.op = "vapi_webhook" /\ resp.code = 200
    /\ resp.auto = "failed" /\ resp.ok

\* C22: with the shared secret configured, an event whose signature header is
\* not the HMAC-SHA256 of its body is answered with ok = false and changes no
\* interview, transcript or feedback record
C22_BadSignatureRejected ==
    [][(/\ resp'.op = "vapi_webhook"
        /\ env.VAPI_WEBHOOK_SECRET
        /\ resp'.sig \in {"invalid", "non_ascii"})
       => (/\ resp'.ok = FALSE
           /\ UNCHANGED <<interviews, transcripts, feedback>>)]_vars

\* C23: start, status poll, mark-complete, transcript retrieval, synthesize,
\* record call id, stop and manual feedback, invoked by a caller who does not
\* own the interview, answer 403 and, for an id that is not stored, 404; the
\* answer holds nothing but the request's own words, and no interview, transcript or
\* feedback record changes
C23_StrangerDenied ==
    [][resp'.op \in InterviewScopedOps =>
          (/\ resp'.code \in {AccessCode(r[1], r[2]) : r \in Strangers}
           /\ resp'.code \in {403, 404}
           /\ DOMAIN resp' \subseteq {"op", "code", "force"}
           /\ UNCHANGED <<interviews, transcripts, feedback>>)]_vars

\* another user was denied the synthesis of a completed interview that has a
\* call id and no AI artifact
C23_Witness ==
    /\ resp.op = "get_ai_feedback" /\ resp.code = 403
    /\ \E iv \in DOMAIN interviews :
          /\ Doc(iv).status = "completed" /\ Doc(iv).vapiCallId # None
          /\ AiArtifacts(iv) = {}

\* C24: the summary of a session id no input was ever sent under is the
\* not-found answer and opens no session; for a known id it holds the
\* preferences, the whole question list, the answers, the feedback and a
\* completed flag that is true exactly in the phase INTERVIEW_COMPLETE, and the
\* session is left as it was
C24_SummaryReadsOnly ==
    [][resp'.op = "workflow_summary" =>
          (/\ UNCHANGED sessions
           /\ IF resp'.session_id \notin DOMAIN sessions
              THEN resp'.code = 404 /\ "body" \notin DOMAIN resp'
              ELSE LET session == sessions[resp'.session_id]
                       body == resp'.body
                   IN  /\ resp'.code = 200
                       /\ body.preferences =
                             [job_role |-> session.job_role,
                              interview_type |-> session.interview_type,
                              experience_level |-> session.experience_level]
                       /\ body.questions = session.questions
                       /\ body.answers = session.answers
                       /\ body.feedback = session.feedback
                       /\ body.completed = (session.phase = "INTERVIEW_COMPLETE"))]_vars

\* the summary of a finished session, with its five questions and answers
C24_Witness ==
    /\ resp.op = "workflow_summary" /\ resp.code = 200
    /\ resp.body.completed
    /\ Len(resp.body.questions) = 5
    /\ DOMAIN resp.body.answers # {}

ManualArtifacts(iv) ==
    {d \in feedback : d.interviewId = iv /\ d.source = MANUAL_FEEDBACK_SOURCE}

C26_Expected(raw, stored) ==
    IF raw = <<>> THEN stored
    ELSE IF Contains(S_completed, Lower(raw)) \/ Contains(S_ended, Lower(raw))
    THEN "completed"
    ELSE IF Contains(S_failed, Lower(raw)) THEN "failed"
    ELSE "inProgress"

\* C26: the webhook stores, for a raw status string that is not empty, taken
\* in lower case: completed when it contains "completed" or "ended", otherwise
\* failed when it contains "failed", otherwise inProgress; an event with no
\* status leaves the stored status as it was
C26_WebhookNormalizes ==
    [][(resp.op = "input" /\ resp'.op = "vapi_webhook")
          => (/\ resp'.ok
              /\ interviews'["iv1"].status =
                    C26_Expected(resp.raw, Doc("iv1").status))]_vars

\* an event without a status was delivered for a cancelled interview, which
\* is cancelled still: no status string is normalized to cancelled
C26_Witness ==
    /\ resp.op = "vapi_webhook" /\ resp.ok
    /\ Doc("iv1").status = "cancelled"

\* C27: a raw provider status leaves the same stored status whether the
\* webhook delivers it or the status poll reads it; one that contains
\* "failed" is stored as failed on both paths
C27_PollMatchesWebhook ==
    [][(resp.op = "input" /\ resp'.op = "get_ai_interview_status")
          => interviews'["iv1"].status =
                Update("iv1", WebhookPayload("iv1",
                          StatusEvent(resp.raw, resp.transcriptUrl)))["iv1"].status]_vars

\* C28: whatever webhook events, status polls and mark-complete calls follow
\* one another, a stored duration, transcript locator or recording locator is
\* never set to none or removed, and a signal that carries no value for one of
\* them leaves it as it was: each changes only to a value a signal carried
C28_ArtifactsKept ==
    [][\A iv \in DOMAIN interviews :
          /\ \A f \in {"interviewDuration", "transcriptUrl", "audioRecordingUrl"} :
                /\ iv \in DOMAIN interviews'
                /\ Doc(iv)[f] # None => interviews'[iv][f] # None
          /\ interviews'[iv].interviewDuration # Doc(iv).interviewDuration
                => interviews'[iv].interviewDuration \in Durations
          /\ interviews'[iv].transcriptUrl # Doc(iv).transcriptUrl
                => interviews'[iv].transcriptUrl = TranscriptUrl
          /\ interviews'[iv].audioRecordingUrl # Doc(iv).audioRecordingUrl
                => interviews'[iv].audioRecordingUrl = RecordingUrl]_vars

\* C29: once completed or failed is stored, neither update_vapi_call_id nor a
\* repeated start of the call sets the status to one that is not terminal
C29_TerminalNotReopened ==
    [][\A iv \in DOMAIN interviews :
          (/\ Doc(iv).status \in TerminalStatuses
           /\ resp'.op \in {"update_vapi_call_id", "start_ai_interview"})
          => interviews'[iv].status \in TerminalStatuses]_vars

\* the call ids start_interview_call makes up when its request has failed
FailedStartIds == {"mock_timeout_", "mock_network_", "mock_error_"}

\* C30: when the call provider fails the request that starts the call (an
\* error answer, a network error, a timeout), the interview that finalize with
\* autoStart has stored, or that the start was asked for, is not inProgress
C30_FailedStartNotInProgress ==
    [][/\ (/\ resp'.op = "workflow_finalize" /\ resp'.code = 200
           /\ resp'.autoStart /\ resp'.outcome # "ok")
          => \A iv \in DOMAIN interviews' \ DOMAIN interviews :
                interviews'[iv].status \in {"scheduled", "failed"}
       /\ resp'.op = "start_ai_interview"
          => \A iv \in DOMAIN interviews :
                (/\ interviews'[iv] # Doc(iv)
                 /\ interviews'[iv].vapiCallId \in FailedStartIds)
                => interviews'[iv].status # "inProgress"]_vars

\* C31: stop_call sends PATCH with action, PATCH empty, POST to actions, POST
\* to end, DELETE, in that order; it stops at the first variant the provider
\* accepts and returns true without sending a later one; a rejected or raising
\* variant is followed by the next; it returns false when all five have failed
C31_StopTriesInOrder ==
    (resp.op = "stop_call" /\ resp.client) =>
        LET order == <<"patch-action", "patch-empty", "post-actions",
                       "post-end", "delete-call">>
            accepted == {k \in 1..5 : resp.outs[k] = "accepted"}
            n == Len(resp.sent)
        IN  /\ n \in 1..5
            /\ resp.sent = SubSeq(order, 1, n)
            /\ \A k \in 1..(n - 1) : resp.outs[k] # "accepted"
            /\ resp.ok = (accepted # {})
            /\ resp.ok => resp.outs[n] = "accepted"
            /\ ~resp.ok => n = 5

\* the first two variants raised, the third was rejected, the fourth accepted
C31_Witness ==
    /\ resp.op = "stop_call" /\ resp.client /\ resp.ok
    /\ resp.outs[1] = "raises" /\ resp.outs[2] = "raises"
    /\ resp.outs[3] = "rejected" /\ resp.outs[4] = "accepted"
    /\ resp.sent = <<"patch-action", "patch-empty", "post-actions", "post-end">>

\* TRUE when the analysis dict is the provider's own and not a fallback
GenuineAnalysis(ao) ==
    /\ env.gemini_is_configured
    /\ ao.kind = "json"
    /\ ao.hasScore => ao.scoreIsNumber

\* C32: an AI artifact built from a fallback analysis (provider not
\* configured, provider failed, answer not parseable) carries another source
\* tag than the tags of artifacts built from the provider's own analysis
C32_FallbackTagged ==
    [][resp'.op = "get_ai_feedback" =>
         \A r \in OwnerOnly, force \in BOOLEAN, to \in FeedbackTranscriptOutcomes,
            ao \in AnalysisAnswers :
             (/\ get_ai_feedback_early(r[1], r[2], force) = 0
              /\ get_ai_feedback(r[1], r[2], force, to, ao))
             => \A d \in feedback' \ feedback :
                   (d.source \in {"ai_on_demand", "ai_auto"}) = GenuineAnalysis(ao)]_vars

\* C33: when an operation gets the transcript text from the provider (the
\* transcript endpoint or the download of the transcript locator) because none
\* is stored, the text is stored as the interview's transcript, so that the
\* next operation finds it there
C33_FetchedTranscriptStored ==
    [][/\ resp'.op = "get_ai_feedback" =>
            \A r \in OwnerOnly, force \in BOOLEAN, to \in FeedbackTranscriptOutcomes,
               ao \in FeedbackAnalysisOutcomes :
                (/\ get_ai_feedback_early(r[1], r[2], force) = 0
                 /\ FeedbackNeedsFetch(r[1])
                 /\ Truthy(Strip(OrEmpty(get_call_transcript(to))))
                 /\ get_ai_feedback(r[1], r[2], force, to, ao))
                => /\ r[1] \in DOMAIN transcripts'
                   /\ transcripts'[r[1]].transcript = OrEmpty(get_call_transcript(to))
       /\ (resp'.op = "vapi_webhook" /\ resp'.auto = "written") =>
            \A d \in feedback' \ feedback : d.interviewId \in DOMAIN transcripts']_vars

\* the place of a phase in the order of the dialogue; the four phases of the
\* asking loop share one place
PhaseRank(phase) ==
    CASE phase = "GREETING" -> 0
      [] phase = "COLLECTING_JOB_ROLE" -> 1
      [] phase = "COLLECTING_INTERVIEW_TYPE" -> 2
      [] phase = "COLLECTING_EXPERIENCE_LEVEL" -> 3
      [] phase = "GENERATING_QUESTIONS" -> 4
      [] phase \in {"INTERVIEW_STARTING", "ASKING_QUESTION",
                    "LISTENING_FOR_ANSWER", "PROVIDING_FEEDBACK"} -> 5
      [] phase = "INTERVIEW_COMPLETE" -> 6

\* C34: every input to a session that is not complete moves its phase to the
\* next place in the order (the input that gives the level passes through
\* GENERATING_QUESTIONS inside the call and leaves the session in the asking
\* loop), or keeps it in the asking loop while questions remain; and the first
\* input stores no preference
C34_OneTransitionPerCall ==
    [][resp'.op = "process_user_input" =>
          \A sid \in DOMAIN sessions' :
              LET before == IF sid \in DOMAIN sessions THEN sessions[sid]
                            ELSE create_session
                  after == sessions'[sid]
              IN  /\ before.phase # "INTERVIEW_COMPLETE" =>
                        \/ PhaseRank(after.phase) = PhaseRank(before.phase) + 1
                        \/ /\ before.phase = "COLLECTING_EXPERIENCE_LEVEL"
                           /\ PhaseRank(after.phase) = 5
                        \/ /\ PhaseRank(before.phase) = 5
                           /\ PhaseRank(after.phase) = 5
                           /\ after.current_question_index < Len(after.questions)
                  /\ before.phase = "GREETING" =>
                        /\ after.job_role = None
                        /\ after.interview_type = None
                        /\ after.experience_level = None]_vars

\* C35: INTERVIEW_COMPLETE is terminal: an input to a session that is complete
\* leaves its phase, preferences, questions, index, answers and feedback as
\* they were, whatever the input
C35_CompleteIsTerminal ==
    [][resp'.op = "process_user_input" =>
          \A sid \in DOMAIN sessions :
              sessions[sid].phase = "INTERVIEW_COMPLETE" =>
                  /\ sid \in DOMAIN sessions'
                  /\ sessions'[sid] = sessions[sid]]_vars

\* a complete session has been given one more input
C35_Witness ==
    /\ resp.op = "process_user_input"
    /\ \E sid \in DOMAIN sessions :
          /\ sessions[sid].phase = "INTERVIEW_COMPLETE"
          /\ resp.turn = Len(sessions[sid].questions) + 5

\* C36: between inputs a session holds as many answers as feedback strings as
\* its question index says, the index is at most the number of questions, and
\* once there are questions the phase is INTERVIEW_COMPLETE exactly when the
\* index has reached their number
C36_AnswersFeedbackIndexAgree ==
    \A sid \in DOMAIN sessions :
        LET session == sessions[sid] IN
        /\ Len(session.answers) = session.current_question_index
        /\ Len(session.feedback) = session.current_question_index
        /\ session.current_question_index <= Len(session.questions)
        /\ session.questions # <<>> =>
              ((session.phase = "INTERVIEW_COMPLETE")
                  = (session.current_question_index = Len(session.questions)))

\* C37: a session that is not complete can still make progress towards
\* INTERVIEW_COMPLETE: some input, with some answer of the provider, changes it
C37_CompleteStillReachable ==
    \A sid \in DOMAIN sessions :
        sessions[sid].phase # "INTERVIEW_COMPLETE" =>
            \E user_input \in UserInputs, qo \in QuestionOutcomes,
               fo \in FeedbackTextOutcomes :
                _handle_phase_logic(sessions[sid], user_input, qo, fo).session
                    # sessions[sid]

(***************************************************************************)
(* Dialogues side by side.  process_user_input is a coroutine: it gives up *)
(* the event loop where _handle_phase_logic awaits the provider, for the   *)
(* questions when the level is given and for feedback when a question is   *)
(* answered, and turns of other sessions run meanwhile.  A session is      *)
(* given its next input when its last turn has returned.                   *)
(***************************************************************************)
DialogueIds == {"s1", "s2"}

\* the provider is awaited only when the assistant has a model, and for
\* feedback only after the question that was answered has been read
TurnSuspends(session) ==
    /\ env.workflow_model
    /\ \/ session.phase = "COLLECTING_EXPERIENCE_LEVEL"
       \/ /\ session.phase \in {"INTERVIEW_STARTING", "ASKING_QUESTION"}
          /\ session.current_question_index < Len(session.questions)

\* what _handle_phase_logic has assigned when it reaches its await
BeforeAwait(session, user_input) ==
    CASE session.phase = "COLLECTING_EXPERIENCE_LEVEL" ->
            [session EXCEPT !.experience_level = Strip(user_input),
                            !.phase = "GENERATING_QUESTIONS"]
      [] session.phase = "INTERVIEW_STARTING" ->
            [session EXCEPT !.answers = Append(@, user_input),
                            !.phase = "PROVIDING_FEEDBACK"]
      [] session.phase = "ASKING_QUESTION" ->
            [session EXCEPT !.answers = Append(@, user_input)]

\* what it assigns to its session once the provider has answered
AfterAwait(session, stage, qo, fo) ==
    IF stage = "questions"
    THEN [session |-> [session EXCEPT
                          !.questions = generate_interview_questions(qo),
                          !.phase = "INTERVIEW_STARTING"],
          raised |-> generate_interview_questions(qo) = <<>>]
    ELSE LET fed == [session EXCEPT
                          !.feedback = Append(@, _generate_feedback(fo)),
                          !.current_question_index = @ + 1]
         IN  [session |-> [fed EXCEPT !.phase =
                              IF fed.current_question_index < Len(fed.questions)
                              THEN "ASKING_QUESTION" ELSE "INTERVIEW_COMPLETE"],
              raised |-> FALSE]

TurnsInFlight(session_id) ==
    {l \in BagToSet(inflight) :
        l.handler = "process_user_input" /\ l.session_id = session_id}

\* process_user_input up to its await, or to its end when it awaits nothing;
\* the suspended turn remembers the session as it found it
process_user_input_begin(session_id, user_input) ==
    LET session == IF session_id \in DOMAIN sessions THEN sessions[session_id]
                   ELSE create_session
        result == IF TurnSuspends(session)
                  THEN [session |-> BeforeAwait(session, user_input), raised |-> FALSE]
                  ELSE _handle_phase_logic(session, user_input,
                                           [kind |-> "raises"], [kind |-> "raises"])
    IN  /\ Turns < MaxTurns
        /\ TurnsInFlight(session_id) = {}
        /\ sessions' = [i \in DOMAIN sessions \cup {session_id} |->
                            IF i = session_id THEN result.session ELSE sessions[i]]
        /\ IF TurnSuspends(session)
           THEN /\ BagCardinality(inflight) < MaxInflight
                /\ inflight' = inflight (+) SetToBag(
                      {[handler |-> "process_user_input", session_id |-> session_id,
                        user_input |-> user_input, before |-> session,
                        stage |-> IF session.phase = "COLLECTING_EXPERIENCE_LEVEL"
                                  THEN "questions" ELSE "feedback"]})
           ELSE UNCHANGED inflight
        /\ resp' = [op |-> "process_user_input", code |-> 0,
                    raised |-> result.raised, turn |-> Turns + 1,
                    session_id |-> session_id,
                    suspended |-> TurnSuspends(session)]
        /\ UNCHANGED <<interviews, transcripts, feedback, env>>

\* a turn that goes on with the session of the request handled last
process_user_input_resume_latest(l, qo, fo) ==
    LET result == AfterAwait(sessions[resp.session_id], l.stage, qo, fo)
    IN  /\ sessions' = [sessions EXCEPT ![resp.session_id] = result.session]
        /\ inflight' = inflight (-) SetToBag({l})
        /\ resp' = [op |-> "process_user_input", code |-> 0,
                    raised |-> result.raised, turn |-> Turns,
                    session_id |-> l.session_id, suspended |-> FALSE]
        /\ UNCHANGED <<interviews, transcripts, feedback, env>>

\* the turn goes on with the provider's answer, on the session object it holds
process_user_input_resume(l, qo, fo) ==
    LET result == AfterAwait(sessions[l.session_id], l.stage, qo, fo)
    IN  /\ sessions' = [sessions EXCEPT ![l.session_id] = result.session]
        /\ inflight' = inflight (-) SetToBag({l})
        /\ resp' = [op |-> "process_user_input", code |-> 0,
                    raised |-> result.raised, turn |-> Turns,
                    session_id |-> l.session_id, suspended |-> FALSE]
        /\ UNCHANGED <<interviews, transcripts, feedback, env>>

InitInterleave ==
    /\ EmptyStore
    /\ env \in {[DefaultEnv EXCEPT !.workflow_model = b] : b \in BOOLEAN}

TurnBegin ==
    \E sid \in DialogueIds :
        \E user_input \in IF sid \in DOMAIN sessions THEN {T_padded} ELSE {T_empty} :
            process_user_input_begin(sid, user_input)

TurnResume ==
    \E l \in BagToSet(inflight) :
        /\ l.handler = "process_user_input"
        /\ \E qo \in IF l.stage = "questions" THEN QuestionOutcomes
                     ELSE {[kind |-> "raises"]},
              fo \in IF l.stage = "feedback" THEN FeedbackTextOutcomes
                     ELSE {[kind |-> "raises"]} :
                process_user_input_resume(l, qo, fo)

NextInterleave ==
    \/ TurnBegin
    \/ TurnResume

SpecInterleave == InitInterleave /\ [][NextInterleave]_vars

\* C38: turns of different sessions interleave at the awaits, and every step
\* of a turn leaves every other session as it was; a turn that was suspended
\* leaves its own session as the turn run without interruption on the session
\* it found would have left it, for some answer of the provider
C38_SessionsIsolated ==
    [][resp'.op = "process_user_input" =>
          /\ \A sid \in DOMAIN sessions :
                sid # resp'.session_id =>
                    (sid \in DOMAIN sessions' /\ sessions'[sid] = sessions[sid])
          /\ \A l \in BagToSet(inflight) \ BagToSet(inflight') :
                \E qo \in QuestionOutcomes, fo \in FeedbackTextOutcomes :
                    sessions'[l.session_id] =
                        _handle_phase_logic(l.before, l.user_input, qo, fo).session]_vars

\* a turn of one session went on with the provider's answer while a turn of
\* the other session was still waiting for it
C38_Witness ==
    /\ resp.op = "process_user_input" /\ "suspended" \in DOMAIN resp
    /\ ~resp.suspended
    /\ resp.session_id = "s2"
    /\ sessions["s2"].phase \in {"ASKING_QUESTION", "INTERVIEW_STARTING"}
    /\ TurnsInFlight("s1") # {}
    /\ TurnsInFlight("s2") = {}

\* C39: an interview holds a score only if a feedback document, from the
\* analysis or written by hand, is stored for it, after every request and
\* event, and an interview that has just been created holds none
C39_ScoreOnlyWithFeedback ==
    [][/\ \A iv \in DOMAIN interviews' :
             interviews'[iv].overallScore # NoScore =>
                 \E d \in feedback' : d.interviewId = iv
       /\ \A iv \in DOMAIN interviews' \ DOMAIN interviews :
             interviews'[iv].overallScore = NoScore]_vars

\* an interview holds the score of the artifact the analysis produced for it
C39_Witness ==
    \E iv \in DOMAIN interviews :
        /\ interviews[iv].overallScore # NoScore
        /\ \E d \in feedback :
              /\ d.interviewId = iv
              /\ d.source \in {"ai_on_demand", "ai_auto"}
              /\ d.overallScore = interviews[iv].overallScore

\* C40: with the shared secret configured, an event that carries no signature
\* header changes no interview, no transcript and no feedback document, as an
\* event with a wrong signature changes none
C40_UnsignedEventNotApplied ==
    [][(/\ resp'.op = "vapi_webhook"
        /\ env.VAPI_WEBHOOK_SECRET
        /\ resp'.sig \in {"absent", "invalid"}) =>
           UNCHANGED <<interviews, transcripts, feedback>>]_vars

====
